---- MODULE Spec2Model ----
(***************************************************************************)
(* Model of the update monitor: the poll loop (core/main.py), the restart  *)
(* sequence (core/restart.py), the RCON client (core/rcon_client.py), the  *)
(* player-count parser (core/players.py) and the update check             *)
(* (core/updates.py, core/workshop.py).                                    *)
(*                                                                         *)
(* The program is single-threaded.  Its blocking points (connect, every    *)
(* packet read, every sleep, the update check) are the steps of the model; *)
(* what the peer, the catalog, the file system and the inventory tool      *)
(* answer is drawn nondeterministically at those steps.                    *)
(*                                                                         *)
(* Optional values (Python None) are sequences of length <= 1:             *)
(* None is << >> and a present value v is << v >>.                        *)
(***************************************************************************)
EXTENDS Integers, Sequences, FiniteSets, TLC

\* ---------------------------------------------------------------- bounds

\* Configured seconds (restart_delay_sec, warn_1_min_sec, countdown_sec)
\* range over -1 .. MaxCfgSec.
MaxCfgSec == 2
\* The peer sends at most MaxAuthReads packets that leave authentication
\* undecided before it sends a deciding one, stalls or closes.
MaxAuthReads == 1
\* At most MaxMods workshop ids in the ini file.
MaxMods == 1

\* ------------------------------------------------------------ optionals

None == << >>
Some(v) == << v >>
IsNone(o) == o = << >>
Get(o) == o[1]

Max(a, b) == IF a >= b THEN a ELSE b
Min(a, b) == IF a <= b THEN a ELSE b

\* ------------------------------------------------- restart.py: the plan

\* Mutant of Plan: warn_1 is not clamped to the delay.
Plan_Warn1NotClamped(c) ==
    LET delay == Max(c.restart_delay_sec, 0)
        warn_1 == Max(c.warn_1_min_sec, 0)
        countdown == Min(Max(c.countdown_sec, 0), warn_1)
    IN [delay |-> delay, warn_1 |-> warn_1, countdown |-> countdown]

\* restart.py lines 33-35: the clamped plan of the scheduled path.
Plan(c) ==
    LET delay == Max(c.restart_delay_sec, 0)
        warn_1 == Min(Max(c.warn_1_min_sec, 0), delay)
        countdown == Min(Max(c.countdown_sec, 0), warn_1)
    IN [delay |-> delay, warn_1 |-> warn_1, countdown |-> countdown]

NoPlan == [delay |-> 0, warn_1 |-> 0, countdown |-> 0]

\* The configurations enumerated.  The three durations are read only on the
\* scheduled path, which needs a password, so a configuration without a
\* password is enumerated with one triple only.
CfgSecs == -1 .. MaxCfgSec
\* The countdown templates (msg_countdown) enumerated: the default of
\* config.py line 145, one that names a field format() is not given, and one
\* without a field.  The template is read only in the countdown loop, so the
\* other two are enumerated with the longest countdown only.
DefaultTemplate == "Restart in {seconds} seconds."
Templates == {DefaultTemplate, "Restart in {secs} seconds.", "Restart soon."}
Configs ==
    { c \in [restart_delay_sec : CfgSecs, warn_1_min_sec : CfgSecs,
             countdown_sec : CfgSecs, rcon_password : {"", "pw"},
             msg_countdown : Templates] :
        /\ c.rcon_password = "" =>
              /\ c.restart_delay_sec = MaxCfgSec
              /\ c.warn_1_min_sec = 1
              /\ c.countdown_sec = 1
        /\ c.msg_countdown # DefaultTemplate =>
              /\ c.rcon_password = "pw"
              /\ c.restart_delay_sec = MaxCfgSec
              /\ c.warn_1_min_sec = MaxCfgSec
              /\ c.countdown_sec = MaxCfgSec }

\* --------------------------------------------- rcon_client.py: packets

\* Exceptions are named by their Python class.
OSErrors == {"ConnectionRefusedError", "socket.timeout"}

Ok(body) == [kind |-> "ok", body |-> body, exc |-> ""]
Raise(exc) == [kind |-> "raise", body |-> << >>, exc |-> exc]
NoRet == [kind |-> "none", body |-> << >>, exc |-> ""]

\* rcon_client.py line 40: the AUTH packet is sent with request id 1, type 3.
AUTH_ID == 1
SERVERDATA_AUTH == 3
\* rcon_client.py line 43: the packet type that decides authentication.
SERVERDATA_AUTH_RESPONSE == 2
\* rcon_client.py line 61: the command packet is sent with request id 2, type 2.
EXEC_ID == 2
SERVERDATA_EXECCOMMAND == 2
\* rcon_client.py line 27: request id and packet type are unpacked from
\* exactly 8 payload bytes.
HEADER_BYTES == 8
\* rcon_client.py line 34: length field = body bytes + 10.
FRAME_OVERHEAD == 10

\* What one call of _recv_packet meets on the socket: a whole frame whose
\* length field is `length`, a timeout, or a zero-length read (eof).
Frame(length, req_id, ptype, body) ==
    [ev |-> "frame", length |-> length, req_id |-> req_id, ptype |-> ptype,
     body |-> body]
Timeout == [ev |-> "timeout", length |-> 0, req_id |-> 0, ptype |-> 0, body |-> << >>]
Eof == [ev |-> "eof", length |-> 0, req_id |-> 0, ptype |-> 0, body |-> << >>]

\* A frame as _send_packet of a conforming peer builds it (lines 32-36).
WellFormed(req_id, ptype, body) ==
    Frame(Len(body) + FRAME_OVERHEAD, req_id, ptype, body)

Pkt(req_id, ptype, body) ==
    [kind |-> "pkt", req_id |-> req_id, ptype |-> ptype, body |-> body, exc |-> ""]
PktRaise(exc) ==
    [kind |-> "raise", req_id |-> 0, ptype |-> 0, body |-> << >>, exc |-> exc]

\* rcon_client.py lines 11-29: _recv_exact and _recv_packet.  A timeout of
\* recv raises socket.timeout, a zero-length read raises RconError, and a
\* payload shorter than 8 bytes (also a zero or negative length field, for
\* which _recv_exact returns no bytes) makes struct.unpack raise
\* struct.error.  The body is payload[8:-2].
RecvPacket(ev) ==
    CASE ev.ev = "timeout" -> PktRaise("socket.timeout")
      [] ev.ev = "eof" -> PktRaise("RconError")
      [] OTHER ->
            IF ev.length < HEADER_BYTES
            THEN PktRaise("struct.error")
            ELSE Pkt(ev.req_id, ev.ptype,
                     IF ev.length >= FRAME_OVERHEAD THEN ev.body ELSE << >>)

\* Mutant of AuthVerdict: request id -1 is looked at in type-2 packets only.
AuthVerdict_MinusOneOnlyInResponse(pkt) ==
    IF pkt.ptype = SERVERDATA_AUTH_RESPONSE
    THEN IF pkt.req_id # -1 THEN "ok" ELSE "fail"
    ELSE "more"

\* rcon_client.py lines 42-46: one turn of the loop of _authenticate on a
\* received packet: "ok" (return True), "fail" (return False) or "more"
\* (read the next packet).
AuthVerdict(pkt) ==
    IF pkt.ptype = SERVERDATA_AUTH_RESPONSE
    THEN IF pkt.req_id # -1 THEN "ok" ELSE "fail"
    ELSE IF pkt.req_id = -1 THEN "fail" ELSE "more"

\* rcon_client.py line 66: body.decode("utf-8", errors="replace").  A body
\* is a sequence of tokens; the token "bad" is a byte sequence that is not
\* UTF-8, which decodes to the replacement character "U+FFFD".
Decode(body) ==
    [i \in 1 .. Len(body) |-> IF body[i] = "bad" THEN "U+FFFD" ELSE body[i]]

\* Mutant of ReplyResult: a packet of type 3 is accepted as well.
ReplyResult_AcceptsAuthType(pkt) ==
    IF pkt.ptype \notin {0, 2, 3} THEN Raise("RconError") ELSE Ok(Decode(pkt.body))

\* rcon_client.py lines 64-66: the packet read after EXECCOMMAND.
ReplyResult(pkt) ==
    IF pkt.ptype \notin {0, 2} THEN Raise("RconError") ELSE Ok(Decode(pkt.body))

\* --------------------------------------- players.py: parse_player_count

\* A response is a sequence of tokens: "PC" and "pc" are the text
\* "Players connected" in two letter cases, " " is a blank, "NL" a line
\* break, "x" and "U+FFFD" any other text.
HeaderToks == {"PC", "pc"}
Digits == {"0", "1", "2"}
DigitVal(d) == CASE d = "0" -> 0 [] d = "1" -> 1 [] d = "2" -> 2

\* The first index >= i of r that is past the end or holds no token of S.
SkipWhile(r, i, S) ==
    CHOOSE m \in i .. Len(r) + 1 :
        /\ (m = Len(r) + 1 \/ r[m] \notin S)
        /\ \A k \in i .. m - 1 : r[k] \in S

RECURSIVE DecimalValue(_)
DecimalValue(ds) ==
    IF ds = << >> THEN 0
    ELSE 10 * DecimalValue(SubSeq(ds, 1, Len(ds) - 1)) + DigitVal(ds[Len(ds)])

\* The match of  Players connected\s*\((\d+)\)  starting at index i, as the
\* digits of group 1, or None.
HeaderMatchAt(r, i) ==
    IF r[i] \notin HeaderToks THEN None
    ELSE LET j == SkipWhile(r, i + 1, {" ", "NL"})
         IN IF j > Len(r) \/ r[j] # "(" THEN None
            ELSE LET k == SkipWhile(r, j + 1, Digits)
                 IN IF k = j + 1 \/ k > Len(r) \/ r[k] # ")" THEN None
                    ELSE Some(SubSeq(r, j + 1, k - 1))

\* The indices at which a line of splitlines() starts.
LineStarts(r) ==
    {i \in 1 .. Len(r) : i = 1 \/ r[i - 1] = "NL"}

\* Mutant of IsListed: the line is not stripped before the test.
IsListed_NoStrip(r, s) == r[s] = "-"

\* line.strip().startswith("-") for the line starting at index s.
IsListed(r, s) ==
    LET p == SkipWhile(r, s, {" "})
    IN p <= Len(r) /\ r[p] = "-"

\* Mutant of ParsePlayerCount: a reply without header and without listing
\* line counts as zero players.
ParsePlayerCount_EmptyListingIsZero(r) ==
    IF r = << >> THEN None
    ELSE LET hits == {i \in 1 .. Len(r) : HeaderMatchAt(r, i) # None}
         IN IF hits # {}
            THEN LET first == CHOOSE i \in hits : \A k \in hits : i <= k
                 IN Some(DecimalValue(Get(HeaderMatchAt(r, first))))
            ELSE Some(Cardinality({s \in LineStarts(r) : IsListed(r, s)}))

\* players.py lines 9-22.
ParsePlayerCount(r) ==
    IF r = << >> THEN None
    ELSE LET hits == {i \in 1 .. Len(r) : HeaderMatchAt(r, i) # None}
         IN IF hits # {}
            THEN LET first == CHOOSE i \in hits : \A k \in hits : i <= k
                 IN Some(DecimalValue(Get(HeaderMatchAt(r, first))))
            ELSE LET listed == {s \in LineStarts(r) : IsListed(r, s)}
                 IN IF listed # {} THEN Some(Cardinality(listed)) ELSE None

\* The replies to the players command that the server is taken to give.
PlayerResponses ==
    { << >>,
      <<"PC", " ", "(", "0", ")">>,
      <<"pc", "(", "2", ")", "NL", "-", "x">>,
      <<"-", "x", "NL", " ", "-", "x">>,
      <<"bad">> }

\* ---------------------------------- workshop.py, updates.py: the check

\* Mutant of IsOutdated: equal times count as outdated.
IsOutdated_EqualIsOutdated(m) ==
    IF IsNone(m.remote_time_updated) THEN FALSE
    ELSE IF IsNone(m.local_mtime) THEN TRUE
    ELSE Get(m.remote_time_updated) >= Get(m.local_mtime)

\* workshop.py lines 31-37: ModStatus.is_outdated.
IsOutdated(m) ==
    IF IsNone(m.remote_time_updated) THEN FALSE
    ELSE IF IsNone(m.local_mtime) THEN TRUE
    ELSE Get(m.remote_time_updated) > Get(m.local_mtime)

\* updates.py lines 21-23: UpdateResult.any_outdated.
AnyOutdated(r) == r.mods_outdated \/ r.server_outdated

\* What one update check finds outside the program: whether the ini file
\* exists, whether the catalog request succeeds, the statuses the mods get
\* from the file system and the catalog, the build id of the local manifest,
\* and the pair (build id, error) that steamcmd_get_buildid returns.
Times == {None, Some(1), Some(2)}
ModStatuses == [local_mtime : Times, remote_time_updated : Times]
ModLists == UNION { [1 .. n -> ModStatuses] : n \in 0 .. MaxMods }
ToolResults ==
    { [buildid |-> Some("1"), error |-> None],
      [buildid |-> Some("2"), error |-> None],
      [buildid |-> None, error |-> Some("steamcmd")] }
\* When the ini file is missing or the catalog request fails nothing else is
\* read, so those two cases are enumerated once each.
\* Build ids are strings of digits: "01" and "1" are different ids.
OkEnvs ==
    [ini_exists : {TRUE}, api_ok : {TRUE}, mods : ModLists,
     local_buildid : {None, Some("1"), Some("01")}, steamcmd : ToolResults]
CheckEnvs ==
    OkEnvs \cup
    { [ini_exists |-> FALSE, api_ok |-> TRUE, mods |-> << >>,
       local_buildid |-> None,
       steamcmd |-> [buildid |-> None, error |-> Some("steamcmd")]],
      [ini_exists |-> TRUE, api_ok |-> FALSE,
       mods |-> <<[local_mtime |-> None, remote_time_updated |-> None]>>,
       local_buildid |-> Some("1"),
       steamcmd |-> [buildid |-> Some("2"), error |-> None]] }

\* The number a build id (a string of digits) denotes.
BuildNumber(id) == CASE id = "01" -> 1 [] id = "1" -> 1 [] id = "2" -> 2

\* Mutant of ServerOutdated: the build ids are compared as numbers.
ServerOutdated_Numeric(lb, rb) ==
    ~IsNone(lb) /\ ~IsNone(rb) /\ BuildNumber(Get(lb)) # BuildNumber(Get(rb))

\* updates.py lines 52-54: both build ids present (and not the empty
\* string, which no id is) and unequal as strings.
ServerOutdated(lb, rb) ==
    ~IsNone(lb) /\ ~IsNone(rb) /\ Get(lb) # Get(rb)

\* updates.py lines 26-64 with workshop.py lines 132-152: check_updates.
\* A missing ini file raises FileNotFoundError (workshop.py line 42); a
\* failed catalog request raises out of urlopen (workshop.py line 82), which
\* is called only for a non-empty id list (line 67) and which neither
\* build_mod_statuses nor check_updates catches.
CheckUpdates(env) ==
    IF ~env.ini_exists THEN [kind |-> "raise", exc |-> "FileNotFoundError", value |-> None]
    ELSE IF Len(env.mods) > 0 /\ ~env.api_ok
    THEN [kind |-> "raise", exc |-> "URLError", value |-> None]
    ELSE LET lb == env.local_buildid
             rb == env.steamcmd.buildid
         IN [kind |-> "ok", exc |-> "",
             value |-> Some(
               [mods_outdated |-> \E i \in 1 .. Len(env.mods) : IsOutdated(env.mods[i]),
                server_outdated |-> ServerOutdated(lb, rb),
                mod_statuses |-> env.mods,
                local_buildid |-> lb,
                remote_buildid |-> rb,
                steamcmd_error |-> env.steamcmd.error])]

\* ------------------------------------------- restart.py: the sequence

\* The positions of run_restart_sequence: a command being sent (lines 29,
\* 30, 38, 43, 53, 56, 57) or a sleep (lines 40, 45, 54).
CommandSteps == {"imm_save", "imm_quit", "msg5", "msg1", "cd_msg", "save", "quit"}
SleepSteps == {"sleep_a", "sleep_b", "cd_sleep"}

Cmd(kind, n) == [kind |-> kind, n |-> n]
NoCmd == Cmd("", 0)
PlayersCmd == Cmd("players", 0)

\* str.format(seconds=n) on a template: the text with n in the place of the
\* field ("shown"), the text as it is when it has no field ("plain"), or
\* KeyError for a field that is not given.
Format(tpl, n) ==
    CASE tpl = DefaultTemplate -> Ok("shown")
      [] tpl = "Restart in {secs} seconds." -> Raise("KeyError")
      [] tpl = "Restart soon." -> Ok("plain")

\* Mutant of CountdownMessage: a template that fails to format is sent as it is.
CountdownMessage_NoFallback(tpl, rem) ==
    LET f == Format(tpl, rem)
    IN IF f.kind = "ok" /\ f.body = "shown" THEN Cmd("countdown", rem)
       ELSE Cmd("countdown_plain", rem)

\* restart.py lines 49-53: the servermsg of the countdown loop at rem seconds:
\* the formatted template, with rem in its text ("countdown") or not
\* ("countdown_plain"), or "Restart in <rem> seconds." when format raised
\* ("countdown_generic").
CountdownMessage(tpl, rem) ==
    LET f == Format(tpl, rem)
    IN IF f.kind = "raise" THEN Cmd("countdown_generic", rem)
       ELSE IF f.body = "shown" THEN Cmd("countdown", rem)
       ELSE Cmd("countdown_plain", rem)

\* The command sent at a command step: cfg.save_command, cfg.quit_command,
\* or servermsg with the 5-minute, 1-minute or countdown text.
CommandOf(st, rem, tpl) ==
    CASE st \in {"imm_save", "save"} -> Cmd("save", 0)
      [] st \in {"imm_quit", "quit"} -> Cmd("quit", 0)
      [] st = "msg5" -> Cmd("msg5", 0)
      [] st = "msg1" -> Cmd("msg1", 0)
      [] st = "cd_msg" -> CountdownMessage(tpl, rem)

\* Mutant of FirstStep: the warnings are not skipped on the immediate path.
FirstStep_NeverImmediate(imm) == "msg5"

\* restart.py lines 27-38: the first position of the sequence.
FirstStep(imm) == IF imm THEN "imm_save" ELSE "msg5"

\* Mutant of AfterSleepA: the 1-minute warning is sent also when warn_1 = 0.
AfterSleepA_AlwaysWarns(p) == "msg1"

\* restart.py lines 42-45: after the first wait, the 1-minute warning if
\* warn_1 > 0, else the second wait.
AfterSleepA(p) == IF p.warn_1 > 0 THEN "msg1" ELSE "sleep_b"

\* restart.py lines 29-57: the position after position st is done, with
\* the remaining seconds of the countdown loop.
AfterStep(st, p, rem) ==
    CASE st = "imm_save" -> [step |-> "imm_quit", remaining |-> rem]
      [] st = "imm_quit" -> [step |-> "end", remaining |-> rem]
      [] st = "msg5" -> [step |-> "sleep_a", remaining |-> rem]
      [] st = "sleep_a" ->
            [step |-> AfterSleepA(p), remaining |-> rem]
      [] st = "msg1" -> [step |-> "sleep_b", remaining |-> rem]
      [] st = "sleep_b" ->
            IF p.countdown > 0
            THEN [step |-> "cd_msg", remaining |-> p.countdown]
            ELSE [step |-> "save", remaining |-> rem]
      [] st = "cd_msg" -> [step |-> "cd_sleep", remaining |-> rem]
      [] st = "cd_sleep" ->
            IF rem - 1 > 0
            THEN [step |-> "cd_msg", remaining |-> rem - 1]
            ELSE [step |-> "save", remaining |-> 0]
      [] st = "save" -> [step |-> "quit", remaining |-> rem]
      [] st = "quit" -> [step |-> "end", remaining |-> rem]

\* Mutant of SleepOf: the second wait is not shortened by the countdown.
SleepOf_WholeWarn(st, p) ==
    CASE st = "sleep_a" ->
            IF p.delay - p.warn_1 <= 0 THEN None ELSE Some(p.delay - p.warn_1)
      [] st = "sleep_b" ->
            IF p.warn_1 <= 0 THEN None ELSE Some(p.warn_1)
      [] st = "cd_sleep" -> Some(1)

\* restart.py lines 15-18, 40, 45, 54: the seconds time.sleep is called
\* with at a sleep position, or None when _sleep_seconds returns at once.
SleepOf(st, p) ==
    CASE st = "sleep_a" ->
            IF p.delay - p.warn_1 <= 0 THEN None ELSE Some(p.delay - p.warn_1)
      [] st = "sleep_b" ->
            IF p.warn_1 - p.countdown <= 0 THEN None ELSE Some(p.warn_1 - p.countdown)
      [] st = "cd_sleep" -> Some(1)

\* main.py lines 87 and 100: the exceptions run_once catches around the
\* player-count query and the restart sequence.
Caught(exc) == exc \in OSErrors \/ exc = "RconError"

\* ------------------------------------------------------------- state

VARIABLES
    cfg,           \* the MonitorConfig loaded by main (read-only afterwards)
    once,          \* args.once
    pc,            \* where main / run_once stands
    result,        \* run_once: the UpdateResult (Some) between check and decision
    player_count,  \* run_once: the parsed player count (None: unknown or not yet asked)
    immediate,     \* run_restart_sequence: its argument
    plan,          \* run_restart_sequence: delay, warn_1, countdown
    step,          \* run_restart_sequence: the position in the sequence
    remaining,     \* run_restart_sequence: the countdown loop variable
    rpc,           \* send_command: the position in the current invocation
    command,       \* send_command: the command of the current invocation
    sock,          \* send_command: whether its socket is open
    rx,            \* the (request id, type) of the packets _authenticate has read
    ret,           \* what the last send_command returned or raised
    wire,          \* the socket events of the current invocation
    calls,         \* this cycle's finished invocations of send_command
    opened,        \* this cycle's count of connections opened
    waits,         \* this cycle's arguments of time.sleep in the sequence
    log            \* this cycle's log lines

\* The byte level of one call of _recv_packet (rcon_client.py lines 11-29),
\* followed on its own: what the peer has put on the socket and where the
\* reader stands.
VARIABLES
    sent,          \* the packet the peer passed to _send_packet (None: other bytes)
    inbox,         \* the bytes the peer has written to the socket
    peer_closed,   \* whether the peer closes after them (else it stays silent)
    consumed,      \* how many bytes of inbox recv has handed out
    phase,         \* "len", "payload", "done", "failed" (or "off")
    recv_remaining,\* _recv_exact: remaining
    chunks,        \* _recv_exact: the bytes of the chunks so far, joined
    frame_length,  \* _recv_packet: length (the unpacked length header)
    outcome        \* what _recv_packet returned or raised

\* One call of a function of the text parsers, followed on its own.
VARIABLES
    call,          \* the function called and its arguments
    value          \* what it returned (None before it has)

codecVars == <<sent, inbox, peer_closed, consumed, phase, recv_remaining, chunks,
               frame_length, outcome>>
fnVars == <<call, value>>
loopVars == <<cfg, once, pc, result, player_count, immediate, plan, step, remaining,
              rpc, command, sock, rx, ret, wire, calls, opened, waits, log>>
vars == <<loopVars, codecVars, fnVars>>

mainVars == <<pc, result, player_count, immediate, plan, step, remaining, waits, log>>
seqVars == <<immediate, plan, step, remaining, waits>>

\* The socket events of an invocation: connect, connect_failed, tx (a packet
\* sent, with its request id and type), rx (one call of _recv_packet, with
\* what it met on the socket) and close.
Quiet == [ev |-> "none", length |-> 0, req_id |-> 0, ptype |-> 0, body |-> << >>]
Ev(e, i, t) == [e |-> e, req_id |-> i, ptype |-> t, got |-> Quiet]
Rx(ev) == [e |-> "rx", req_id |-> 0, ptype |-> 0, got |-> ev]

ReqIds == {-1, AUTH_ID, EXEC_ID}
PktTypes == {0, SERVERDATA_AUTH_RESPONSE, SERVERDATA_AUTH}
Malformed == Frame(4, 0, 0, << >>)

\* What the peer may answer while the client authenticates: _authenticate
\* tells type 2 from every other type, of which type 0 (the empty
\* RESPONSE_VALUE servers send before AUTH_RESPONSE) is enumerated.
AuthEvents ==
    {WellFormed(i, t, << >>) : i \in ReqIds, t \in {0, SERVERDATA_AUTH_RESPONSE}}
        \cup {Malformed, Timeout, Eof}

\* What the peer may answer to a command.  Only the reply to the players
\* command is read by the caller; the others are taken to be empty.
Bodies(c) == IF c = PlayersCmd THEN PlayerResponses ELSE {<< >>}
ReplyEvents(c) ==
    {WellFormed(i, t, b) : i \in ReqIds, t \in PktTypes, b \in Bodies(c)}
        \cup {Malformed, Timeout, Eof}

\* No call of _recv_packet is followed at the byte level.
CodecOff ==
    /\ sent = None
    /\ inbox = << >>
    /\ peer_closed = FALSE
    /\ consumed = 0
    /\ phase = "off"
    /\ recv_remaining = 0
    /\ chunks = << >>
    /\ frame_length = 0
    /\ outcome = PktRaise("")

\* No parser call is followed on its own.
FnOff ==
    /\ call = [fn |-> "", arg |-> << >>]
    /\ value = None

\* main.py lines 104-128: the configuration is loaded, the loop is entered.
MainInit ==
    /\ cfg \in Configs
    /\ once \in BOOLEAN
    /\ pc = "run_once"
    /\ result = None
    /\ player_count = None
    /\ immediate = FALSE
    /\ plan = NoPlan
    /\ step = "none"
    /\ remaining = 0
    /\ rpc = "idle"
    /\ command = NoCmd
    /\ sock = "none"
    /\ rx = << >>
    /\ ret = NoRet
    /\ wire = << >>
    /\ calls = << >>
    /\ opened = 0
    /\ waits = << >>
    /\ log = << >>

Init == MainInit /\ CodecOff /\ FnOff

\* ------------------------------------- rcon_client.py: send_command

\* The caller enters send_command(c) (line 56).
StartCall(c) ==
    /\ rpc' = "connect"
    /\ command' = c
    /\ sock' = "none"
    /\ rx' = << >>
    /\ ret' = NoRet
    /\ wire' = << >>

\* The caller has taken the result of the last invocation and calls nothing.
NoCall ==
    /\ rpc' = "idle"
    /\ command' = NoCmd
    /\ sock' = "none"
    /\ rx' = << >>
    /\ ret' = NoRet
    /\ wire' = << >>

\* Mutant of Return: the socket is closed on a normal return only.
Return_ClosesOnSuccessOnly(r, w, exec) ==
    /\ rpc' = "returned"
    /\ ret' = r
    /\ sock' = IF sock = "open" /\ r.kind = "ok" THEN "closed" ELSE sock
    /\ wire' = IF sock = "open" /\ r.kind = "ok" THEN Append(w, Ev("close", 0, 0)) ELSE w
    /\ calls' = Append(calls,
                  [cmd |-> command, conn |-> sock = "open", exec |-> exec,
                   out |-> IF r.kind = "ok" THEN "ok" ELSE r.exc])

\* send_command returns or raises r; leaving the with block closes the
\* socket if it was opened (line 57).
Return(r, w, exec) ==
    /\ rpc' = "returned"
    /\ ret' = r
    /\ sock' = IF sock = "open" THEN "closed" ELSE sock
    /\ wire' = IF sock = "open" THEN Append(w, Ev("close", 0, 0)) ELSE w
    /\ calls' = Append(calls,
                  [cmd |-> command, conn |-> sock = "open", exec |-> exec,
                   out |-> IF r.kind = "ok" THEN "ok" ELSE r.exc])

\* Mutant of Connect: a connection opened earlier in the cycle is reused.
Connect_Reuses ==
    /\ rpc = "connect"
    /\ \/ /\ rpc' = "auth_send"
          /\ sock' = "open"
          /\ opened' = IF opened > 0 THEN opened ELSE opened + 1
          /\ wire' = IF opened > 0 THEN wire ELSE Append(wire, Ev("connect", 0, 0))
          /\ UNCHANGED <<ret, calls>>
       \/ /\ opened = 0
          /\ \E exc \in OSErrors :
                Return(Raise(exc), Append(wire, Ev("connect_failed", 0, 0)), FALSE)
          /\ UNCHANGED opened
    /\ UNCHANGED <<codecVars, fnVars, cfg, once, mainVars, command, rx>>

\* Line 57: socket.create_connection, which connects, is refused or times out.
Connect ==
    /\ rpc = "connect"
    /\ \/ /\ rpc' = "auth_send"
          /\ sock' = "open"
          /\ opened' = opened + 1
          /\ wire' = Append(wire, Ev("connect", 0, 0))
          /\ UNCHANGED <<ret, calls>>
       \/ /\ \E exc \in OSErrors :
                Return(Raise(exc), Append(wire, Ev("connect_failed", 0, 0)), FALSE)
          /\ UNCHANGED opened
    /\ UNCHANGED <<codecVars, fnVars, cfg, once, mainVars, command, rx>>

\* Lines 58 and 40: settimeout, then _authenticate sends the AUTH packet.
AuthSend ==
    /\ rpc = "auth_send"
    /\ rpc' = "auth_recv"
    /\ wire' = Append(wire, Ev("tx", AUTH_ID, SERVERDATA_AUTH))
    /\ UNCHANGED <<codecVars, fnVars, cfg, once, mainVars, command, sock, rx, ret, calls, opened>>

\* Lines 41-46 and 59-60: one turn of the loop of _authenticate.
AuthRecv ==
    /\ rpc = "auth_recv"
    /\ \E ev \in AuthEvents :
          LET pkt == RecvPacket(ev)
              w == Append(wire, Rx(ev))
          IN IF pkt.kind = "raise"
             THEN /\ Return(Raise(pkt.exc), w, FALSE)
                  /\ UNCHANGED rx
             ELSE LET v == AuthVerdict(pkt)
                      seen == Append(rx, [req_id |-> pkt.req_id, ptype |-> pkt.ptype])
                  IN CASE v = "ok" ->
                            /\ rpc' = "exec_send"
                            /\ rx' = seen
                            /\ wire' = w
                            /\ UNCHANGED <<sock, ret, calls>>
                       [] v = "fail" ->
                            /\ Return(Raise("RconError"), w, FALSE)
                            /\ rx' = seen
                       [] OTHER ->
                            /\ Len(rx) < MaxAuthReads
                            /\ rpc' = "auth_recv"
                            /\ rx' = seen
                            /\ wire' = w
                            /\ UNCHANGED <<sock, ret, calls>>
    /\ UNCHANGED <<codecVars, fnVars, cfg, once, mainVars, command, opened>>

\* Line 61: the EXECCOMMAND packet is sent.
ExecSend ==
    /\ rpc = "exec_send"
    /\ rpc' = "reply"
    /\ wire' = Append(wire, Ev("tx", EXEC_ID, SERVERDATA_EXECCOMMAND))
    /\ UNCHANGED <<codecVars, fnVars, cfg, once, mainVars, command, sock, rx, ret, calls, opened>>

\* Mutant of ReplyRecv: a timeout of the read after EXECCOMMAND is raised.
ReplyRecv_TimeoutRaises ==
    /\ rpc = "reply"
    /\ \E ev \in ReplyEvents(command) :
          LET pkt == RecvPacket(ev)
              w == Append(wire, Rx(ev))
          IN IF pkt.kind = "raise"
             THEN Return(Raise(pkt.exc), w, TRUE)
             ELSE Return(ReplyResult(pkt), w, TRUE)
    /\ UNCHANGED <<codecVars, fnVars, cfg, once, mainVars, command, rx, opened>>

\* Lines 62-68: one packet is read; a timeout of this read returns "".
ReplyRecv ==
    /\ rpc = "reply"
    /\ \E ev \in ReplyEvents(command) :
          LET pkt == RecvPacket(ev)
              w == Append(wire, Rx(ev))
          IN IF pkt.kind = "raise"
             THEN IF pkt.exc = "socket.timeout"
                  THEN Return(Ok(<< >>), w, TRUE)
                  ELSE Return(Raise(pkt.exc), w, TRUE)
             ELSE Return(ReplyResult(pkt), w, TRUE)
    /\ UNCHANGED <<codecVars, fnVars, cfg, once, mainVars, command, rx, opened>>

\* ------------------------------------------------ restart.py, main.py

\* run_restart_sequence moves to position nx: it calls send_command at a
\* command position, stands before a sleep, or returns ("end"), and with it
\* run_once (main.py line 99 is its last statement).
Advance(nx) ==
    /\ step' = nx.step
    /\ remaining' = nx.remaining
    /\ IF nx.step \in CommandSteps
       THEN /\ StartCall(CommandOf(nx.step, nx.remaining, cfg.msg_countdown))
            /\ pc' = pc
       ELSE /\ NoCall
            /\ pc' = IF nx.step = "end" THEN "returned" ELSE pc

\* main.py line 65: the log line of a failed update check names the
\* exception.
CheckFailedLine(exc) == "check_failed: " \o exc
CheckFailedLines == {CheckFailedLine(exc) : exc \in {"FileNotFoundError", "URLError"}}

\* main.py lines 52-66: run_once starts, runs the update check and returns
\* if it raised.
RunOnceCheck ==
    /\ pc = "run_once"
    /\ \E env \in CheckEnvs :
          LET r == CheckUpdates(env)
          IN IF r.kind = "raise"
             THEN /\ pc' = "returned"
                  /\ result' = None
                  /\ log' = <<"start", CheckFailedLine(r.exc)>>
             ELSE /\ pc' = "decide"
                  /\ result' = r.value
                  /\ log' = <<"start", "summary">>
    /\ UNCHANGED <<codecVars, fnVars, cfg, once, player_count, seqVars, rpc, command, sock, rx, ret,
                   wire, calls, opened>>

\* Mutant of Decide: the password is not checked.
Decide_NoPasswordCheck ==
    /\ pc = "decide"
    /\ result' = None
    /\ IF ~AnyOutdated(Get(result))
       THEN /\ pc' = "returned"
            /\ log' = Append(log, "no_updates")
            /\ NoCall
       ELSE /\ pc' = "players"
            /\ log' = log
            /\ StartCall(PlayersCmd)
    /\ UNCHANGED <<codecVars, fnVars, cfg, once, player_count, seqVars, calls, opened>>

\* main.py lines 68-86: nothing outdated, or no password: return; else build
\* the client and ask for the player count.
Decide ==
    /\ pc = "decide"
    /\ result' = None
    /\ IF ~AnyOutdated(Get(result))
       THEN /\ pc' = "returned"
            /\ log' = Append(log, "no_updates")
            /\ NoCall
       ELSE IF cfg.rcon_password = ""
       THEN /\ pc' = "returned"
            /\ log' = Append(log, "no_password")
            /\ NoCall
       ELSE /\ pc' = "players"
            /\ log' = log
            /\ StartCall(PlayersCmd)
    /\ UNCHANGED <<codecVars, fnVars, cfg, once, player_count, seqVars, calls, opened>>

\* Mutant of Propagate: the failed command is issued once more.
Propagate_Retries(line) ==
    /\ pc' = pc
    /\ log' = Append(log, line)
    /\ StartCall(command)

\* main.py lines 87-89 and 100-101, 129: an exception out of send_command
\* passes through get_player_count or run_restart_sequence, which catch
\* nothing; run_once logs it and returns if it catches it, else it passes
\* through run_once and main, and the process ends with a traceback.
Propagate(line) ==
    /\ IF Caught(ret.exc)
       THEN /\ pc' = "returned"
            /\ log' = Append(log, line)
       ELSE /\ pc' = "crashed"
            /\ log' = log
    /\ NoCall

\* Mutant of IsImmediate: an unknown count is taken for zero (not player_count).
IsImmediate_Falsy(n) == IsNone(n) \/ n = Some(0)

\* main.py line 96: immediate = player_count == 0.
IsImmediate(n) == n = Some(0)

\* main.py lines 85-99 with players.py lines 25-27: the players command
\* has returned; the count is parsed and logged and run_restart_sequence is
\* entered up to its first command (restart.py lines 27-38).
PlayersReturn ==
    /\ pc = "players"
    /\ rpc = "returned"
    /\ IF ret.kind = "raise"
       THEN /\ Propagate("players_error")
            /\ UNCHANGED <<player_count, seqVars>>
       ELSE LET n == ParsePlayerCount(ret.body)
                imm == IsImmediate(n)
                st == FirstStep(imm)
            IN /\ player_count' = n
               /\ immediate' = imm
               /\ plan' = IF imm THEN NoPlan ELSE Plan(cfg)
               /\ step' = st
               /\ remaining' = 0
               /\ waits' = << >>
               /\ log' = log \o <<IF IsNone(n) THEN "count_unknown" ELSE "count_known",
                                  IF imm THEN "immediate" ELSE "scheduled">>
               /\ pc' = "restart"
               /\ StartCall(CommandOf(st, 0, cfg.msg_countdown))
    /\ UNCHANGED <<codecVars, fnVars, cfg, once, result, calls, opened>>

\* Mutant of SeqCommandDone: the sequence goes on after a failed command.
SeqCommandDone_IgnoresFailure ==
    /\ pc = "restart"
    /\ rpc = "returned"
    /\ step \in CommandSteps
    /\ Advance(AfterStep(step, plan, remaining))
    /\ UNCHANGED <<codecVars, fnVars, cfg, once, result, player_count, immediate, plan, waits, log,
                   calls, opened>>

\* restart.py lines 29-57: a command of the sequence has returned; the
\* sequence moves on.
SeqCommandDone ==
    /\ pc = "restart"
    /\ rpc = "returned"
    /\ ret.kind = "ok"
    /\ step \in CommandSteps
    /\ Advance(AfterStep(step, plan, remaining))
    /\ UNCHANGED <<codecVars, fnVars, cfg, once, result, player_count, immediate, plan, waits, log,
                   calls, opened>>

\* restart.py lines 40, 45, 54: a sleep of the sequence, then it moves on.
SeqSleep ==
    /\ pc = "restart"
    /\ step \in SleepSteps
    /\ waits' = waits \o SleepOf(step, plan)
    /\ Advance(AfterStep(step, plan, remaining))
    /\ UNCHANGED <<codecVars, fnVars, cfg, once, result, player_count, immediate, plan, log,
                   calls, opened>>

\* main.py lines 100-101: a command of the sequence has raised.
RestartRaise ==
    /\ pc = "restart"
    /\ rpc = "returned"
    /\ ret.kind = "raise"
    /\ Propagate("restart_error")
    /\ UNCHANGED <<codecVars, fnVars, cfg, once, result, player_count, seqVars, calls, opened>>

\* main.py lines 130-132: run_once has returned; --once leaves the loop.
MainNext ==
    /\ pc = "returned"
    /\ IF once
       THEN /\ pc' = "stopped"
            /\ log' = Append(log, "stopped")
       ELSE /\ pc' = "sleep"
            /\ log' = log
    /\ UNCHANGED <<codecVars, fnVars, cfg, once, result, player_count, seqVars, rpc, command, sock,
                   rx, ret, wire, calls, opened>>

\* Mutant of MainSleep: the position of the finished restart sequence, its
\* plan and the player count are kept for the next cycle.
MainSleep_KeepsSequence ==
    /\ pc = "sleep"
    /\ pc' = "run_once"
    /\ result' = None
    /\ calls' = << >>
    /\ opened' = 0
    /\ waits' = << >>
    /\ log' = << >>
    /\ NoCall
    /\ UNCHANGED <<codecVars, fnVars, cfg, once, player_count, immediate, plan, step, remaining>>

\* main.py line 133: time.sleep(check_interval_sec), then the next cycle;
\* nothing of the finished run_once is kept.
MainSleep ==
    /\ pc = "sleep"
    /\ pc' = "run_once"
    /\ result' = None
    /\ player_count' = None
    /\ immediate' = FALSE
    /\ plan' = NoPlan
    /\ step' = "none"
    /\ remaining' = 0
    /\ calls' = << >>
    /\ opened' = 0
    /\ waits' = << >>
    /\ log' = << >>
    /\ NoCall
    /\ UNCHANGED <<codecVars, fnVars, cfg, once>>

Next ==
    \/ RunOnceCheck
    \/ Decide
    \/ PlayersReturn
    \/ SeqCommandDone
    \/ SeqSleep
    \/ RestartRaise
    \/ MainNext
    \/ MainSleep
    \/ Connect
    \/ AuthSend
    \/ AuthRecv
    \/ ExecSend
    \/ ReplyRecv

Spec == Init /\ [][Next]_vars

\* ------------------------- one invocation of send_command, to its end

\* send_command has been called with a command (line 56).
SessionCommands == {PlayersCmd, Cmd("save", 0), Cmd("quit", 0)}
SessionInit ==
    /\ cfg = [restart_delay_sec |-> 0, warn_1_min_sec |-> 0, countdown_sec |-> 0,
              rcon_password |-> "pw", msg_countdown |-> DefaultTemplate]
    /\ once = TRUE
    /\ pc = "players"
    /\ result = None
    /\ player_count = None
    /\ immediate = FALSE
    /\ plan = NoPlan
    /\ step = "none"
    /\ remaining = 0
    /\ rpc = "connect"
    /\ command \in SessionCommands
    /\ sock = "none"
    /\ rx = << >>
    /\ ret = NoRet
    /\ wire = << >>
    /\ calls = << >>
    /\ opened = 0
    /\ waits = << >>
    /\ log = <<"start", "summary">>
    /\ CodecOff
    /\ FnOff

\* The wire without the packet read last in the loop of _authenticate.
LastReadDropped(w) ==
    IF w # << >> /\ w[Len(w)].e = "rx" THEN SubSeq(w, 1, Len(w) - 1) ELSE w

\* Lines 41-46 and 59-60: one turn of the loop of _authenticate, which goes
\* on for as long as packets arrive that are neither of type 2 nor carry
\* request id -1.  The loop keeps nothing of the packets it has read, so of
\* these only the last one is recorded.
AuthRecvLoop ==
    /\ rpc = "auth_recv"
    /\ \E ev \in AuthEvents :
          LET pkt == RecvPacket(ev)
              w == Append(LastReadDropped(wire), Rx(ev))
          IN IF pkt.kind = "raise"
             THEN /\ Return(Raise(pkt.exc), w, FALSE)
                  /\ UNCHANGED rx
             ELSE LET v == AuthVerdict(pkt)
                      seen == <<[req_id |-> pkt.req_id, ptype |-> pkt.ptype]>>
                  IN CASE v = "ok" ->
                            /\ rpc' = "exec_send"
                            /\ rx' = seen
                            /\ wire' = w
                            /\ UNCHANGED <<sock, ret, calls>>
                       [] v = "fail" ->
                            /\ Return(Raise("RconError"), w, FALSE)
                            /\ rx' = seen
                       [] OTHER ->
                            /\ rpc' = "auth_recv"
                            /\ rx' = seen
                            /\ wire' = w
                            /\ UNCHANGED <<sock, ret, calls>>
    /\ UNCHANGED <<codecVars, fnVars, cfg, once, mainVars, command, opened>>

SessionNext ==
    \/ Connect
    \/ AuthSend
    \/ AuthRecvLoop
    \/ ExecSend
    \/ ReplyRecv

\* Every socket operation completes or times out, so send_command always
\* takes its next step.
SessionSpec == SessionInit /\ [][SessionNext]_vars /\ WF_vars(SessionNext)

\* ======================================================== properties

\* The commands of this cycle's finished invocations, in order.
CallCmds == [i \in 1 .. Len(calls) |-> calls[i].cmd]
AllCallsOk == \A i \in 1 .. Len(calls) : calls[i].out = "ok"
\* The commands run_restart_sequence has had sent (the first invocation of
\* a cycle is the players command of run_once).
SeqCmds == IF Len(calls) = 0 THEN << >> ELSE Tail(CallCmds)
\* The same, the countdown messages told apart by their second only.
CountdownKinds == {"countdown", "countdown_generic", "countdown_plain"}
SeqSlots ==
    [i \in 1 .. Len(SeqCmds) |->
        IF SeqCmds[i].kind \in CountdownKinds THEN Cmd("countdown", SeqCmds[i].n)
        ELSE SeqCmds[i]]
IsPrefix(a, b) == Len(a) <= Len(b) /\ a = SubSeq(b, 1, Len(a))
InSequence == step # "none"
Scheduled == InSequence /\ ~immediate

\* C1: on the scheduled path the plan satisfies
\* 0 <= countdown <= warn_1 <= delay, with delay = max(restart_delay_sec, 0),
\* warn_1 = min(max(warn_1_min_sec, 0), delay) and
\* countdown = min(max(countdown_sec, 0), warn_1), for every configured
\* triple; (300, 600, 10) gives warn_1 = 300, countdown = 10 and no wait
\* before the 1-minute warning.
C1_PlanClamped ==
    /\ Scheduled =>
          /\ 0 <= plan.countdown
          /\ plan.countdown <= plan.warn_1
          /\ plan.warn_1 <= plan.delay
          /\ plan.delay = Max(cfg.restart_delay_sec, 0)
          /\ plan.warn_1 = Min(Max(cfg.warn_1_min_sec, 0), plan.delay)
          /\ plan.countdown = Min(Max(cfg.countdown_sec, 0), plan.warn_1)
    /\ LET p == Plan([restart_delay_sec |-> 300, warn_1_min_sec |-> 600,
                      countdown_sec |-> 10, rcon_password |-> "pw"])
       IN /\ p.warn_1 = 300
          /\ p.countdown = 10
          /\ SleepOf("sleep_a", p) = None

\* C1 witness: a scheduled run whose configuration has warn1 > delay > 0
\* and a negative countdown has passed its first wait.
C1_Witness ==
    /\ Scheduled
    /\ step = "msg1"
    /\ cfg.warn_1_min_sec > cfg.restart_delay_sec
    /\ cfg.restart_delay_sec > 0
    /\ cfg.countdown_sec < 0

\* The commands of a scheduled run with plan p, in order.
ExpectedScheduled(p) ==
    <<Cmd("msg5", 0)>>
        \o (IF p.warn_1 > 0 THEN <<Cmd("msg1", 0)>> ELSE << >>)
        \o [i \in 1 .. p.countdown |-> Cmd("countdown", p.countdown + 1 - i)]
        \o <<Cmd("save", 0), Cmd("quit", 0)>>

\* C2: in a scheduled run in which every command succeeds, the commands
\* sent are, in order: the 5-minute warning, the 1-minute warning iff
\* warn_1 > 0, the countdown messages iff countdown > 0, save, quit; the
\* finished run has sent exactly these, quit last and save just before it;
\* nothing is waited for before the 5-minute warning has been sent.
C2_ScheduledOrder ==
    (Scheduled /\ AllCallsOk) =>
        /\ IsPrefix(SeqSlots, ExpectedScheduled(plan))
        /\ (step = "msg5" => waits = << >>)
        /\ step = "end" =>
              /\ SeqSlots = ExpectedScheduled(plan)
              /\ SeqCmds[Len(SeqCmds)] = Cmd("quit", 0)
              /\ SeqCmds[Len(SeqCmds) - 1] = Cmd("save", 0)
        /\ (\E i \in 1 .. Len(SeqCmds) : SeqCmds[i].kind = "msg1") => plan.warn_1 > 0
        /\ (\E i \in 1 .. Len(SeqCmds) : SeqCmds[i].kind \in CountdownKinds) => plan.countdown > 0

\* C2 witness: a finished scheduled run with a 1-minute warning and two
\* countdown messages.
C2_Witness ==
    /\ Scheduled
    /\ AllCallsOk
    /\ step = "end"
    /\ plan.warn_1 > 0
    /\ plan.countdown = 2
    /\ Len(SeqCmds) = 6

\* C3: an immediate run in which both commands succeed sends exactly two
\* commands, save and then quit, no warning or countdown message, and
\* never waits.
C3_ImmediateSaveQuit ==
    (InSequence /\ immediate) =>
        /\ waits = << >>
        /\ step \notin SleepSteps
        /\ IsPrefix(SeqCmds, <<Cmd("save", 0), Cmd("quit", 0)>>)
        /\ (step = "end" /\ AllCallsOk) => SeqCmds = <<Cmd("save", 0), Cmd("quit", 0)>>

\* C3 witness: a finished immediate run.
C3_Witness ==
    /\ InSequence
    /\ immediate
    /\ step = "end"
    /\ AllCallsOk
    /\ Len(calls) = 3

\* The exceptions of a connection, auth or protocol error: a refused or
\* timed-out connect, a timeout while authenticating, a peer that closes,
\* rejected credentials, an unexpected packet type.
RconFailures == {"ConnectionRefusedError", "socket.timeout", "RconError"}

\* C4: once a command of the restart sequence has failed with a
\* connection, auth or protocol error no later command is sent in that
\* cycle (quit is never sent after a failed save), run_once logs the
\* failure and returns, and nothing is retried.
C4_FailureAborts ==
    /\ \A i \in 1 .. Len(calls) : calls[i].out # "ok" => i = Len(calls)
    /\ \A i \in 2 .. Len(calls) :
          calls[i].out \in RconFailures =>
              /\ rpc \in {"returned", "idle"}
              /\ pc \in {"restart", "returned", "sleep", "stopped"}
              /\ pc = "restart" => rpc = "returned"
              /\ pc # "restart" => log[Len(log) - (IF pc = "stopped" THEN 1 ELSE 0)] = "restart_error"
              /\ \A j \in 1 .. Len(calls) : calls[j].cmd = calls[i].cmd => j = i
              /\ calls[i].cmd = Cmd("save", 0) =>
                    \A j \in 1 .. Len(calls) : calls[j].cmd # Cmd("quit", 0)

\* C4 witness: the save command of a scheduled run has failed and run_once
\* has logged it and returned.
C4_Witness ==
    /\ Scheduled
    /\ pc = "sleep"
    /\ Len(calls) >= 3
    /\ calls[Len(calls)].cmd = Cmd("save", 0)
    /\ calls[Len(calls)].out = "RconError"

\* C5: every failure of an RCON exchange during the player-count query or
\* the restart sequence, a malformed incoming frame included, is caught by
\* run_once and logged; run_once returns normally and the process never
\* terminates because of an RCON failure.
C5_RconFailureNeverCrashes ==
    /\ pc # "crashed"
    /\ (calls # << >> /\ calls[Len(calls)].out # "ok" /\ rpc = "idle") =>
          /\ pc \in {"returned", "sleep", "stopped"}
          /\ \E i \in 1 .. Len(log) : log[i] \in {"players_error", "restart_error"}

\* C6: the restart sequence runs on the immediate path iff the parsed player
\* count is exactly 0; with a positive or unknown count (also the empty
\* response of a reply timeout) the scheduled path is used, whose first
\* command is the 5-minute warning, so save and quit are never sent
\* unwarned.
C6_ImmediateIffZero ==
    /\ InSequence =>
          /\ immediate <=> player_count = Some(0)
          /\ immediate <=> (\E i \in 1 .. Len(log) : log[i] = "immediate")
          /\ IsNone(player_count) <=> (\E i \in 1 .. Len(log) : log[i] = "count_unknown")
          /\ immediate => step \in {"imm_save", "imm_quit", "end"}
          /\ player_count # Some(0) =>
                /\ step \notin {"imm_save", "imm_quit"}
                /\ Len(SeqCmds) >= 1 => SeqCmds[1] = Cmd("msg5", 0)
                /\ \A i \in 1 .. Len(SeqCmds) :
                      SeqCmds[i].kind \in {"save", "quit"} => i > 1
    /\ ParsePlayerCount(<< >>) = None

\* C6 witness: a finished scheduled run after an unknown player count.
C6_Witness ==
    /\ InSequence
    /\ IsNone(player_count)
    /\ step = "end"
    /\ AllCallsOk
    /\ SeqCmds[Len(SeqCmds)] = Cmd("quit", 0)

\* Some RCON activity has taken place in the cycle or is under way.
Traffic ==
    rpc # "idle" \/ calls # << >> \/ opened > 0 \/ wire # << >> \/ sock # "none"

\* C7: in a poll cycle there is RCON traffic only if the update check
\* returned a result with mods_outdated or server_outdated and the
\* configured password is non-empty; a result with no workshop items and
\* equal local and remote build ids is followed by no traffic.
C7_NoRconUnlessOutdated ==
    /\ [](Traffic =>
            /\ cfg.rcon_password # ""
            /\ pc \notin {"run_once", "decide"}
            /\ Len(log) >= 2 /\ log[2] = "summary"
            /\ \A i \in 1 .. Len(log) :
                  log[i] \notin CheckFailedLines \cup {"no_updates", "no_password"})
    /\ [][(~Traffic /\ Traffic') =>
            /\ pc = "decide"
            /\ Get(result).mods_outdated \/ Get(result).server_outdated
            /\ cfg.rcon_password # ""]_vars
    /\ [][(/\ pc = "decide"
           /\ Get(result).mod_statuses = << >>
           /\ ~IsNone(Get(result).local_buildid)
           /\ Get(result).local_buildid = Get(result).remote_buildid) =>
            ~Traffic']_vars

\* C7 witness: with a password configured, the update check has returned
\* a result with no workshop items and equal build ids.
C7_Witness ==
    /\ pc = "decide"
    /\ cfg.rcon_password # ""
    /\ Get(result).mod_statuses = << >>
    /\ Get(result).local_buildid = Some("1")
    /\ Get(result).remote_buildid = Some("1")
    /\ ~Traffic

\* _authenticate has returned True in the current invocation.
AuthSucceeded ==
    \/ rpc \in {"exec_send", "reply"}
    \/ rpc = "returned" /\ calls[Len(calls)].exec

\* C8: authentication succeeds only if the first type-2 packet read has
\* request id 1, the id of the AUTH packet, and no earlier packet has
\* request id -1.
C8_AuthOnlyOnMatchingId ==
    AuthSucceeded =>
        \E k \in 1 .. Len(rx) :
            /\ rx[k].ptype = SERVERDATA_AUTH_RESPONSE
            /\ rx[k].req_id = AUTH_ID
            /\ \A j \in 1 .. k - 1 :
                  rx[j].ptype # SERVERDATA_AUTH_RESPONSE /\ rx[j].req_id # -1

RxCount(w) == Cardinality({k \in 1 .. Len(w) : w[k].e = "rx"})
ExecTx == Ev("tx", EXEC_ID, SERVERDATA_EXECCOMMAND)
AuthTx == Ev("tx", AUTH_ID, SERVERDATA_AUTH)

\* C9: while authenticating, the first packet with request id -1, whatever
\* its type, ends authentication with failure and nothing more is read;
\* send_command fails with an auth error and sends no EXECCOMMAND packet.
C9_MinusOneEndsAuth ==
    \A i \in 1 .. Len(rx) :
        rx[i].req_id = -1 =>
            /\ i = Len(rx)
            /\ rpc = "returned"
            /\ ret = Raise("RconError")
            /\ ~calls[Len(calls)].exec
            /\ \A k \in 1 .. Len(wire) : wire[k] # ExecTx
            /\ RxCount(wire) = i
            /\ wire[Len(wire)].e = "close"
            /\ sock = "closed"

\* C9 witness: a type-0 packet with request id -1, read after an undecided
\* packet, has ended the invocation.
C9_Witness ==
    /\ rpc = "returned"
    /\ Len(rx) = 2
    /\ rx[2] = [req_id |-> -1, ptype |-> 0]

\* C10: an invocation of send_command is one session: one connection,
\* then exactly one AUTH packet (type 3, id 1), reads until authentication
\* is decided, at most one EXECCOMMAND packet (type 2, id 2) and only after
\* authentication succeeded, at most one read after it, close; every
\* invocation opens its own connection, so n commands open n connections.
C10_OneSessionPerCall ==
    LET n == Len(wire)
        at(e) == {k \in 1 .. n : wire[k].e = e}
        execs == {k \in 1 .. n : wire[k].e = "tx" /\ wire[k] # AuthTx}
    IN /\ rpc \notin {"idle", "connect"} =>
             n >= 1 /\ wire[1].e \in {"connect", "connect_failed"}
       /\ at("connect") \subseteq {1}
       /\ at("connect_failed") \subseteq {1}
       /\ at("connect_failed") = {1} => n = 1 /\ rpc = "returned"
       /\ {k \in 1 .. n : wire[k] = AuthTx} \subseteq {2}
       /\ n >= 2 => wire[2] = AuthTx
       /\ rpc \in {"auth_recv", "exec_send", "reply"} => n >= 2
       /\ Cardinality(execs) <= 1
       /\ \A k \in execs :
             /\ wire[k] = ExecTx
             /\ k = Len(rx) + 3
             /\ \A j \in 3 .. k - 1 : wire[j].e = "rx"
             /\ rx[Len(rx)].ptype = SERVERDATA_AUTH_RESPONSE
             /\ rx[Len(rx)].req_id # -1
             /\ \A j \in 1 .. Len(rx) - 1 :
                   rx[j].ptype # SERVERDATA_AUTH_RESPONSE /\ rx[j].req_id # -1
             /\ n <= k + 2
             /\ n >= k + 1 => wire[k + 1].e = "rx"
             /\ n = k + 2 => wire[n].e = "close"
       /\ at("close") \subseteq {n}
       /\ at("close") # {} => rpc = "returned"
       /\ (rpc = "returned" /\ at("connect") # {}) => wire[n].e = "close"
       /\ sock = "open" <=> (at("connect") # {} /\ at("close") = {})
       /\ opened = Cardinality({i \in 1 .. Len(calls) : calls[i].conn})
                     + (IF sock = "open" THEN 1 ELSE 0)
       /\ \A i \in 1 .. Len(calls) : calls[i].out = "ok" => calls[i].conn /\ calls[i].exec
       /\ (AllCallsOk /\ rpc \in {"idle", "returned"}) => opened = Len(calls)

\* C10 witness: the third command of a cycle has returned from its own,
\* third connection, after an undecided packet, the auth response and a
\* reply.
C10_Witness ==
    /\ rpc = "returned"
    /\ ret.kind = "ok"
    /\ AllCallsOk
    /\ Len(calls) = 3
    /\ opened = 3
    /\ Len(rx) = 2
    /\ [k \in 1 .. Len(wire) |-> wire[k].e] =
          <<"connect", "tx", "rx", "rx", "tx", "rx", "close">>
    /\ wire[2] = AuthTx
    /\ wire[5] = ExecTx

\* The last finished invocation of the cycle.
LastCall == calls[Len(calls)]
\* The positions of wire at which _recv_packet was called.
RxAt == {k \in 1 .. Len(wire) : wire[k].e = "rx"}
\* The positions of wire after the EXECCOMMAND packet was sent.
AfterExec == {k \in 1 .. Len(wire) : \E j \in 1 .. k - 1 : wire[j] = ExecTx}

\* C11: the socket opened by send_command is closed on every exit path
\* (return, reply timeout, auth failure, unexpected type, peer close, any
\* other exception) before the caller goes on; at most one socket is open
\* at any time and none between commands or between cycles.
C11_SocketClosedOnEveryExit ==
    /\ rpc \in {"idle", "connect", "returned"} => sock # "open"
    /\ rpc = "returned" =>
          /\ LastCall.conn =>
                /\ sock = "closed"
                /\ wire[1].e = "connect"
                /\ wire[Len(wire)].e = "close"
                /\ Cardinality({k \in 1 .. Len(wire) : wire[k].e = "close"}) = 1
          /\ ~LastCall.conn => sock = "none" /\ wire[1].e = "connect_failed"
    /\ pc \in {"run_once", "decide", "returned", "sleep", "stopped", "crashed"} =>
          rpc = "idle" /\ sock = "none"
    /\ step \in SleepSteps => rpc = "idle" /\ sock = "none"
    /\ opened - Cardinality({i \in 1 .. Len(calls) : calls[i].conn})
          = (IF sock = "open" THEN 1 ELSE 0)

\* C11 witness: an invocation that read a malformed frame after the
\* EXECCOMMAND packet has raised struct.error with its socket closed.
C11_Witness ==
    /\ rpc = "returned"
    /\ ret = Raise("struct.error")
    /\ LastCall.exec
    /\ sock = "closed"
    /\ wire[Len(wire)].e = "close"

\* C12: a timeout of the read after the EXECCOMMAND packet makes
\* send_command return the empty string as a success; a timeout of the
\* connect or of a read during authentication makes send_command raise.
C12_TimeoutSoftOnlyForReply ==
    rpc = "returned" =>
        /\ wire[1].e = "connect_failed" =>
              /\ ret.kind = "raise"
              /\ ret.exc \in OSErrors
              /\ LastCall.out = ret.exc
        /\ \A k \in RxAt :
              wire[k].got = Timeout =>
                  /\ \A j \in RxAt : j <= k
                  /\ IF k \in AfterExec
                     THEN ret = Ok(<< >>) /\ LastCall.out = "ok"
                     ELSE ret = Raise("socket.timeout")
                            /\ LastCall.out = "socket.timeout"
        /\ ret = Raise("socket.timeout") =>
              \A k \in 1 .. Len(wire) : wire[k] # ExecTx

\* C12 witness: the read after the EXECCOMMAND packet of the players command
\* has timed out and send_command has returned the empty string.
C12_Witness ==
    /\ rpc = "returned"
    /\ pc = "players"
    /\ ret = Ok(<< >>)
    /\ \E k \in RxAt \cap AfterExec : wire[k].got = Timeout

\* C13: the one packet read after the EXECCOMMAND packet is accepted iff its
\* type is 0 or 2, and then its body (decoded) is returned, whatever its
\* request id; any other type makes send_command raise RconError; no
\* further packet is read.
C13_ReplyAcceptedIffType0Or2 ==
    /\ Cardinality(RxAt \cap AfterExec) <= 1
    /\ rpc = "returned" =>
          \A k \in RxAt \cap AfterExec :
              LET got == wire[k].got
              IN (got.ev = "frame" /\ got.length >= HEADER_BYTES) =>
                    /\ ret.kind = "ok" <=> got.ptype \in {0, 2}
                    /\ got.ptype \in {0, 2} => ret = Ok(Decode(got.body))
                    /\ got.ptype \notin {0, 2} => ret = Raise("RconError")

\* C13 witness: a reply of type 3 has been refused after a reply of type 0
\* with a body was accepted earlier in the cycle.
C13_Witness ==
    /\ rpc = "returned"
    /\ Len(calls) = 2
    /\ calls[1].out = "ok"
    /\ player_count = Some(2)
    /\ ret = Raise("RconError")
    /\ \E k \in RxAt \cap AfterExec :
          wire[k].got.ev = "frame" /\ wire[k].got.ptype = SERVERDATA_AUTH

\* ======================== rcon_client.py lines 11-36 at the byte level

\* A body passed to _send_packet has at most MaxBodyChars characters.
MaxBodyChars == 1

\* struct.pack("<i", n): the four bytes of the two's complement of n, least
\* significant first.  A negative n has the bytes of n + 2^31 with the top
\* bit set.
Int32LE(n) ==
    LET m == IF n >= 0 THEN n ELSE (n + 2147483647) + 1
        top == m \div 16777216
    IN <<m % 256, (m \div 256) % 256, (m \div 65536) % 256,
         IF n >= 0 THEN top ELSE top + 128>>

\* struct.unpack("<i", b) of exactly four bytes.
FromInt32LE(b) ==
    LET low == b[1] + 256 * b[2] + 65536 * b[3]
    IN IF b[4] < 128
       THEN low + 16777216 * b[4]
       ELSE ((low + 16777216 * (b[4] - 128)) - 2147483647) - 1

\* str.encode("utf-8") of one character given by its code point (< 2048).
Utf8Char(c) ==
    IF c < 128 THEN <<c>> ELSE <<192 + (c \div 64), 128 + (c % 64)>>

RECURSIVE Utf8(_)
Utf8(body) ==
    IF body = << >> THEN << >>
    ELSE Utf8Char(Head(body)) \o Utf8(Tail(body))

\* Mutant of SendPacket: the length field counts characters, not bytes.
SendPacket_CountsChars(req_id, ptype, body) ==
    Int32LE(Len(body) + FRAME_OVERHEAD) \o Int32LE(req_id) \o Int32LE(ptype)
        \o Utf8(body) \o <<0, 0>>

\* rcon_client.py lines 32-36: the bytes _send_packet writes.
SendPacket(req_id, ptype, body) ==
    LET body_bytes == Utf8(body)
    IN Int32LE(Len(body_bytes) + FRAME_OVERHEAD) \o Int32LE(req_id) \o Int32LE(ptype)
           \o body_bytes \o <<0, 0>>

\* payload[8:-2] (line 28).
BodyOf(payload) == SubSeq(payload, HEADER_BYTES + 1, Len(payload) - 2)

\* The packets and byte streams followed.  Code points: NUL, "A" and
\* e-acute (two bytes in UTF-8).
CodecChars == {0, 65, 233}
CodecBodies == UNION { [1 .. n -> CodecChars] : n \in 0 .. MaxBodyChars }
CodecIds == {-1, AUTH_ID, EXEC_ID, 65537}
CodecPackets == [req_id : CodecIds, ptype : PktTypes, body : CodecBodies]
\* Frames no _send_packet builds: length fields below the 10 bytes of an
\* empty packet, each followed by that many bytes.
RawLengths == {-1, 0, 4, HEADER_BYTES, 9}
RawFrame(length) ==
    Int32LE(length)
        \o SubSeq(Int32LE(AUTH_ID) \o Int32LE(SERVERDATA_AUTH_RESPONSE) \o <<0>>,
                  1, Max(length, 0))

\* The poll loop stands still while a parser or a packet read is followed
\* on its own.
LoopOff ==
    /\ MainInit
    /\ once
    /\ cfg = [restart_delay_sec |-> 0, warn_1_min_sec |-> 0, countdown_sec |-> 0,
              rcon_password |-> "pw", msg_countdown |-> DefaultTemplate]

\* _recv_packet is entered (line 24: _recv_exact(sock, 4)) on a socket to
\* which the peer has written a packet of _send_packet, whole, cut short or
\* followed by a byte of the next packet, or a frame of its own making.
CodecInit ==
    /\ LoopOff
    /\ FnOff
    /\ \/ \E p \in CodecPackets :
             LET w == SendPacket(p.req_id, p.ptype, p.body)
             IN /\ sent = Some(p)
                /\ inbox \in {SubSeq(w, 1, k) : k \in 0 .. Len(w)} \cup {w \o <<1>>}
       \/ /\ sent = None
          /\ inbox \in {RawFrame(l) : l \in RawLengths}
    /\ peer_closed \in BOOLEAN
    /\ consumed = 0
    /\ phase = "len"
    /\ recv_remaining = 4
    /\ chunks = << >>
    /\ frame_length = 0
    /\ outcome = PktRaise("")

\* _recv_packet raises exc.
RecvFails(exc) ==
    /\ phase' = "failed"
    /\ outcome' = PktRaise(exc)
    /\ recv_remaining' = 0
    /\ chunks' = << >>

\* Lines 27-29: the payload is unpacked; fewer than 8 bytes make
\* struct.unpack raise.
PayloadRead(payload) ==
    IF Len(payload) < HEADER_BYTES
    THEN RecvFails("struct.error") /\ UNCHANGED frame_length
    ELSE /\ phase' = "done"
         /\ outcome' = Pkt(FromInt32LE(SubSeq(payload, 1, 4)),
                           FromInt32LE(SubSeq(payload, 5, 8)),
                           BodyOf(payload))
         /\ recv_remaining' = 0
         /\ chunks' = << >>
         /\ UNCHANGED frame_length

\* Lines 25-26: the length header is unpacked (struct.unpack raises unless it
\* has four bytes) and _recv_exact(sock, length) is entered, which returns
\* no bytes at once unless length > 0.
HeaderRead(raw_len) ==
    IF Len(raw_len) # 4
    THEN RecvFails("struct.error") /\ UNCHANGED frame_length
    ELSE LET length == FromInt32LE(raw_len)
         IN IF length > 0
            THEN /\ phase' = "payload"
                 /\ frame_length' = length
                 /\ recv_remaining' = length
                 /\ chunks' = << >>
                 /\ UNCHANGED outcome
            ELSE /\ RecvFails("struct.error")
                 /\ frame_length' = length

\* Mutant of MoreToRead: _recv_exact returns after its first recv.
MoreToRead_SingleRecv(rem) == FALSE

\* Line 14: the loop of _recv_exact goes on while remaining > 0.
MoreToRead(rem) == rem > 0

\* Lines 15-19: sock.recv(remaining) hands out between one byte and
\* remaining bytes of what has arrived.
RecvChunk ==
    /\ phase \in {"len", "payload"}
    /\ consumed < Len(inbox)
    /\ \E n \in 1 .. Min(recv_remaining, Len(inbox) - consumed) :
          LET chunk == SubSeq(inbox, consumed + 1, consumed + n)
              data == chunks \o chunk
              rem == recv_remaining - n
          IN /\ consumed' = consumed + n
             /\ IF MoreToRead(rem)
                THEN /\ recv_remaining' = rem
                     /\ chunks' = data
                     /\ UNCHANGED <<phase, frame_length, outcome>>
                ELSE IF phase = "len" THEN HeaderRead(data) ELSE PayloadRead(data)
    /\ UNCHANGED <<loopVars, fnVars, sent, inbox, peer_closed>>

\* Lines 15-17: the peer has closed and nothing is left: recv returns b"".
RecvEof ==
    /\ phase \in {"len", "payload"}
    /\ consumed = Len(inbox)
    /\ peer_closed
    /\ RecvFails("RconError")
    /\ UNCHANGED <<loopVars, fnVars, sent, inbox, peer_closed, consumed, frame_length>>

\* Line 15: nothing arrives within the socket timeout.
RecvTimeout ==
    /\ phase \in {"len", "payload"}
    /\ consumed = Len(inbox)
    /\ ~peer_closed
    /\ RecvFails("socket.timeout")
    /\ UNCHANGED <<loopVars, fnVars, sent, inbox, peer_closed, consumed, frame_length>>

CodecNext ==
    \/ RecvChunk
    \/ RecvEof
    \/ RecvTimeout

CodecSpec == CodecInit /\ [][CodecNext]_vars

\* The length header of the bytes on the socket.
InboxLength == FromInt32LE(SubSeq(inbox, 1, 4))
\* The socket holds a whole frame long enough to be unpacked.
WholeFrame ==
    /\ Len(inbox) >= 4
    /\ InboxLength >= HEADER_BYTES
    /\ Len(inbox) >= 4 + InboxLength

\* C14: however recv splits the byte stream into chunks, _recv_packet
\* returns only after consuming exactly 4 + length bytes, and what it
\* returns is the request id, type and body that stand in those bytes; a
\* zero-length read before that raises the closed-connection error, never a
\* short packet; a whole frame is never refused.
C14_ChunkingIndependent ==
    /\ consumed <= Len(inbox)
    /\ phase = "payload" => consumed <= 4 + frame_length /\ frame_length = InboxLength
    /\ phase = "done" =>
          /\ WholeFrame
          /\ frame_length = InboxLength
          /\ consumed = 4 + frame_length
          /\ outcome = Pkt(FromInt32LE(SubSeq(inbox, 5, 8)),
                           FromInt32LE(SubSeq(inbox, 9, 12)),
                           SubSeq(inbox, 13, 2 + frame_length))
    /\ (phase = "failed" /\ outcome.exc = "RconError") =>
          /\ peer_closed
          /\ consumed = Len(inbox)
          /\ Len(inbox) < 4 \/ Len(inbox) < 4 + InboxLength
    /\ (phase = "failed" /\ outcome.exc = "socket.timeout") =>
          /\ ~peer_closed
          /\ Len(inbox) < 4 \/ Len(inbox) < 4 + InboxLength
    /\ (phase = "failed" /\ WholeFrame) => FALSE

\* C14 witness: a packet with a one-byte body was read to its end and the
\* byte of the next packet that follows it was left on the socket.
C14_Witness ==
    /\ phase = "done"
    /\ consumed = 15
    /\ Len(inbox) = 16
    /\ outcome.body = <<65>>
    /\ outcome.req_id = -1

\* What the peer passed to _send_packet, and the bytes that writes.
SentPacket == Get(sent)
Written == SendPacket(SentPacket.req_id, SentPacket.ptype, SentPacket.body)

\* C15: the bytes _send_packet writes for a request id, type and body are
\* the length field (body bytes + 10), the id, the type, the body bytes and
\* two NUL bytes, 14 + body bytes in all, and _recv_packet decodes them into
\* the same id and type and the same body bytes.
C15_PacketRoundTrip ==
    (sent # None /\ Len(inbox) >= Len(Written)) =>
        LET n == Len(Utf8(SentPacket.body))
        IN /\ Len(Written) = 14 + n
           /\ SubSeq(inbox, 1, 4) = Int32LE(n + 10)
           /\ SubSeq(inbox, 13 + n, 14 + n) = <<0, 0>>
           /\ phase # "failed"
           /\ phase = "done" =>
                 /\ outcome = Pkt(SentPacket.req_id, SentPacket.ptype,
                                  Utf8(SentPacket.body))
                 /\ consumed = Len(Written)

\* C15 witness: a packet with request id -1, type 3 and a two-byte
\* character as body has been sent and read back.
C15_Witness ==
    /\ phase = "done"
    /\ sent = Some([req_id |-> -1, ptype |-> SERVERDATA_AUTH, body |-> <<233>>])
    /\ inbox = Written
    /\ outcome.body = <<195, 169>>

\* The UpdateResult run_once holds between the check and the decision.
TheResult == Get(result)

\* is_outdated as the claim states it.
RemoteNewer(m) ==
    /\ m.remote_time_updated # None
    /\ \/ m.local_mtime = None
       \/ Get(m.remote_time_updated) > Get(m.local_mtime)

\* C16: is_outdated is true iff the remote time is present and the local
\* time is absent or smaller: an absent remote time and equal times are
\* not outdated; (None, 1000) and (1000, 1001) are outdated, (1000, 1000)
\* and (1000, None) are not.
C16_IsOutdatedIff ==
    /\ pc = "decide" =>
          /\ TheResult.mods_outdated <=>
                \E i \in 1 .. Len(TheResult.mod_statuses) :
                    RemoteNewer(TheResult.mod_statuses[i])
          /\ \A i \in 1 .. Len(TheResult.mod_statuses) :
                LET m == TheResult.mod_statuses[i]
                IN /\ m.remote_time_updated = None => ~IsOutdated(m)
                   /\ m.remote_time_updated = m.local_mtime => ~IsOutdated(m)
                   /\ IsOutdated(m) => TheResult.mods_outdated
    /\ IsOutdated([local_mtime |-> None, remote_time_updated |-> Some(1000)])
    /\ ~IsOutdated([local_mtime |-> Some(1000), remote_time_updated |-> Some(1000)])
    /\ IsOutdated([local_mtime |-> Some(1000), remote_time_updated |-> Some(1001)])
    /\ ~IsOutdated([local_mtime |-> Some(1000), remote_time_updated |-> None])

\* C16 witness: the check has found one mod with equal local and remote
\* times and reports no outdated mod.
C16_Witness ==
    /\ pc = "decide"
    /\ TheResult.mod_statuses =
          <<[local_mtime |-> Some(2), remote_time_updated |-> Some(2)]>>
    /\ ~TheResult.mods_outdated

\* C17: server_outdated is true iff both build ids are present and differ
\* as strings; ids that denote the same number but differ as strings are
\* outdated; with either id absent server_outdated is false.
C17_ServerOutdatedIff ==
    pc = "decide" =>
        LET lb == TheResult.local_buildid
            rb == TheResult.remote_buildid
        IN /\ TheResult.server_outdated <=> (lb # None /\ rb # None /\ lb # rb)
           /\ (lb = None \/ rb = None) => ~TheResult.server_outdated
           /\ (lb = Some("01") /\ rb = Some("1")) => TheResult.server_outdated

\* C17 witness: the local build id is "01", the remote one "1", and the
\* server is reported outdated.
C17_Witness ==
    /\ pc = "decide"
    /\ TheResult.local_buildid = Some("01")
    /\ TheResult.remote_buildid = Some("1")
    /\ TheResult.server_outdated

\* C18: a failed catalog request or a failed inventory tool never aborts
\* the update check: check_updates returns a result in which the remote
\* build id is absent and the failure is recorded (tool), and the other
\* comparison is still made.
C18_SubFailuresNeverAbort ==
    /\ \A i \in 1 .. Len(log) : log[i] # CheckFailedLine("URLError")
    /\ (pc = "decide" /\ TheResult.steamcmd_error # None) =>
          /\ TheResult.remote_buildid = None
          /\ ~TheResult.server_outdated
          /\ TheResult.mods_outdated <=>
                \E i \in 1 .. Len(TheResult.mod_statuses) :
                    RemoteNewer(TheResult.mod_statuses[i])

\* ============================== steam_app.py: the remote build id

\* The branches block of a tool output has at most MaxBranches branches.
MaxBranches == 3

\* The tool output is a sequence of tokens: a quoted string is the token of
\* its text ("branches", "public", "buildid", "1", ...), "{" and "}" are the
\* braces, "NL" a line break and " " a blank.
Blank == {" ", "NL"}
BuildIds == {"1", "2", "3"}

\* str.find(tok, from): the first index >= from holding tok, or 0 (for -1).
Find(text, tok, from) ==
    LET hits == {i \in from .. Len(text) : text[i] = tok}
    IN IF hits = {} THEN 0 ELSE CHOOSE i \in hits : \A k \in hits : i <= k

\* The depth counter of lines 42-50 after the characters start .. i.
Depth(text, start, i) ==
    Cardinality({k \in start .. i : text[k] = "{"})
        - Cardinality({k \in start .. i : text[k] = "}"})

\* Mutant of ExtractNamedBlock: the block ends at the first "}".
ExtractNamedBlock_FirstClosingBrace(text, name) ==
    LET pos == Find(text, name, 1)
    IN IF pos = 0 THEN None
       ELSE LET start == Find(text, "{", pos)
            IN IF start = 0 THEN None
               ELSE LET end == Find(text, "}", start)
                    IN IF end = 0 THEN None ELSE Some(SubSeq(text, start, end))

\* steam_app.py lines 33-51: the text from the first "{" after the first
\* occurrence of the quoted name to its matching "}", or None.
ExtractNamedBlock(text, name) ==
    LET pos == Find(text, name, 1)
    IN IF pos = 0 THEN None
       ELSE LET start == Find(text, "{", pos)
            IN IF start = 0 THEN None
               ELSE LET ends == {i \in start .. Len(text) : Depth(text, start, i) = 0}
                    IN IF ends = {} THEN None
                       ELSE Some(SubSeq(text, start,
                                        CHOOSE i \in ends : \A k \in ends : i <= k))

\* steam_app.py lines 54-76: the same search for the branch name inside the
\* block named "branches".
ExtractBranchBlock(text, branch_name) ==
    LET branches_block == ExtractNamedBlock(text, "branches")
    IN IF branches_block = None THEN None
       ELSE ExtractNamedBlock(Get(branches_block), branch_name)

\* The match of  ^\s*"buildid"\s*"(\d+)"\s*$  (multiline) with "buildid" at
\* index i: only blanks back to a line start, blanks, a quoted number, and
\* only blanks up to a line end.
BuildidMatchAt(text, i) ==
    IF text[i] # "buildid" THEN None
    ELSE LET before == {k \in 1 .. i - 1 : \A m \in k .. i - 1 : text[m] \in Blank}
             at_line_start ==
                 \/ \A m \in 1 .. i - 1 : text[m] \in Blank
                 \/ \E k \in before : text[k] = "NL"
             j == SkipWhile(text, i + 1, Blank)
         IN IF ~at_line_start \/ j > Len(text) \/ text[j] \notin BuildIds THEN None
            ELSE LET e == SkipWhile(text, j + 1, Blank)
                 IN IF e > Len(text) \/ (\E k \in j + 1 .. e - 1 : text[k] = "NL")
                    THEN Some(text[j])
                    ELSE None

\* steam_app.py lines 79-83: the first build id line of the text, or None.
ParseBuildid(text) ==
    LET hits == {i \in 1 .. Len(text) : BuildidMatchAt(text, i) # None}
    IN IF hits = {} THEN None
       ELSE BuildidMatchAt(text, CHOOSE i \in hits : \A k \in hits : i <= k)

\* Mutant of BuildidOf: no fallback to the whole output.
BuildidOf_BranchBlockOnly(output, branch) ==
    LET branch_block == ExtractBranchBlock(output, branch)
    IN IF branch_block = None THEN None ELSE ParseBuildid(Get(branch_block))

\* steam_app.py lines 133-141: the build id of the branch block, else the
\* first build id of the whole output.
BuildidOf(output, branch) ==
    LET branch_block == ExtractBranchBlock(output, branch)
        inside == IF branch_block = None THEN None ELSE ParseBuildid(Get(branch_block))
    IN IF inside # None THEN inside ELSE ParseBuildid(output)

\* Mutant of SteamcmdGetBuildid: a run that raised is reported without error.
SteamcmdGetBuildid_SilentFailure(tool, output, branch) ==
    IF tool = "missing" THEN [buildid |-> None, error |-> Some("steamcmd not found")]
    ELSE IF tool \in {"failed", "timeout"} THEN [buildid |-> None, error |-> None]
    ELSE LET buildid == BuildidOf(output, branch)
         IN IF buildid # None
            THEN [buildid |-> buildid, error |-> None]
            ELSE [buildid |-> None, error |-> Some("buildid not found")]

\* steam_app.py lines 86-143: steamcmd_get_buildid as the pair
\* (build id, error).  The tool is missing, subprocess.run raises because
\* the tool cannot be started ("failed") or runs out of time ("timeout"),
\* or the tool has printed output.
SteamcmdGetBuildid(tool, output, branch) ==
    IF tool = "missing" THEN [buildid |-> None, error |-> Some("steamcmd not found")]
    ELSE IF tool \in {"failed", "timeout"}
    THEN [buildid |-> None, error |-> Some("steamcmd failed")]
    ELSE LET buildid == BuildidOf(output, branch)
         IN IF buildid # None
            THEN [buildid |-> buildid, error |-> None]
            ELSE [buildid |-> None, error |-> Some("buildid not found")]

\* The tool outputs followed: a "depots" block holding a "branches" block
\* of two to MaxBranches branch blocks with different names and different
\* build ids; a branch block may lack its build id line and may carry a
\* description whose text is the word "public".  The output is whole
\* ("full"), has the branch blocks in the "depots" block with no "branches"
\* block ("no_branches"), or ends before the closing braces of the
\* "branches" and "depots" blocks ("truncated").
BranchNames == {"public", "unstable", "beta"}
Branches ==
    [name : BranchNames, description : {None, Some("public")},
     buildid : {None} \cup {Some(id) : id \in BuildIds}]
BranchLists ==
    { s \in UNION { [1 .. n -> Branches] : n \in 2 .. MaxBranches } :
        \A i, j \in 1 .. Len(s) :
            i # j => /\ s[i].name # s[j].name
                     /\ s[i].buildid = None \/ s[i].buildid # s[j].buildid }

RenderBranch(b) ==
    <<b.name, "NL", "{", "NL">>
        \o (IF b.description = None THEN << >>
            ELSE <<" ", "description", " ", Get(b.description), "NL">>)
        \o (IF b.buildid = None THEN << >>
            ELSE <<" ", "buildid", " ", Get(b.buildid), "NL">>)
        \o <<"}", "NL">>

RECURSIVE RenderBranches(_)
RenderBranches(s) ==
    IF s = << >> THEN << >> ELSE RenderBranch(Head(s)) \o RenderBranches(Tail(s))

Shapes == {"full", "no_branches", "truncated"}
RenderOutput(s, shape) ==
    <<"depots", "NL", "{", "NL">>
        \o (IF shape = "no_branches" THEN << >> ELSE <<"branches", "NL", "{", "NL">>)
        \o RenderBranches(s)
        \o (CASE shape = "full" -> <<"}", "NL", "}", "NL">>
              [] shape = "no_branches" -> <<"}", "NL">>
              [] shape = "truncated" -> << >>)

ToolRuns ==
    [tool : {"ran"}, siblings : BranchLists, shape : Shapes, branch : BranchNames]
        \cup [tool : {"missing", "failed", "timeout"}, siblings : {<< >>},
              shape : {"full"}, branch : {"public"}]

\* The names _extract_named_block is followed on, in each of the outputs:
\* the outer block, the block nested in it, a branch, and a key that has no
\* block of its own.
BlockNames == {"depots", "branches", "public", "buildid"}
BlockSearches == [siblings : BranchLists, shape : Shapes, name : BlockNames]

\* The installs check_updates is followed on: the ini file names no
\* workshop item, the manifest holds build id "1" or is missing.
LocalBuildids == {None, Some("1")}

\* ================================== players.py: the replies followed

\* A reply has at most MaxLines lines.
MaxLines == 2

ResponseLines ==
    { << >>, <<" ">>, <<"x">>, <<"-", "x">>, <<" ", "-", "x">>, <<"x", "-">>,
      <<"PC", " ", "(", "2", ")">>, <<"pc", "(", "0", ")">>, <<"PC", " ", "(", ")">>,
      <<"x", "PC", " ", " ", "(", "1", "0", ")", "x">>, <<"PC">>, <<"(", "1", ")">>,
      <<"PC", " ", "(", "0", "0", ")">> }

RECURSIVE JoinLines(_)
JoinLines(ls) ==
    IF Len(ls) = 1 THEN ls[1] ELSE ls[1] \o <<"NL">> \o JoinLines(Tail(ls))

Responses ==
    { JoinLines(ls) : ls \in UNION { [1 .. n -> ResponseLines] : n \in 1 .. MaxLines } }

\* ============================================ workshop.py: the ini file

\* The text after "WorkshopItems=" in the ini file has at most MaxIniChars
\* characters; "x" stands for any character that is neither a digit, white
\* space nor ";".
MaxIniChars == 5
IniChars == {"1", "2", ";", " ", "NL", "x"}

\* str.strip(): s without its leading and trailing white space.
Strip(s) ==
    LET first == SkipWhile(s, 1, Blank)
        last == CHOOSE m \in 0 .. Len(s) :
                    /\ (m = 0 \/ s[m] \notin Blank)
                    /\ \A k \in m + 1 .. Len(s) : s[k] \in Blank
    IN SubSeq(s, first, last)

\* str.split(";"): the pieces between the semicolons, empty ones included.
RECURSIVE Split(_)
Split(s) ==
    LET cut == Find(s, ";", 1)
    IN IF cut = 0 THEN <<s>>
       ELSE <<SubSeq(s, 1, cut - 1)>> \o Split(SubSeq(s, cut + 1, Len(s)))

\* str.isdigit(): not empty and digits only.
IsDigit(p) == p # << >> /\ \A k \in 1 .. Len(p) : p[k] \in Digits

\* Group 1 of the pattern of line 45 on the text after "WorkshopItems":
\* the "\s*" after "=" runs over blanks and line ends alike, "(.+?)\s*$"
\* then takes the rest of the line it stopped in, up to its last character
\* that is not white space.  No match and an all-blank group both give << >>.
MatchedValue(rest) ==
    LET start == SkipWhile(rest, 1, Blank)
        eol == Find(rest, "NL", start)
    IN Strip(SubSeq(rest, start, IF eol = 0 THEN Len(rest) ELSE eol - 1))

\* Line 50: the pieces of the value, stripped, the empty ones dropped.
RECURSIVE Parts(_)
Parts(pieces) ==
    IF pieces = << >> THEN << >>
    ELSE (IF Strip(Head(pieces)) # << >> THEN <<Strip(Head(pieces))>> ELSE << >>)
             \o Parts(Tail(pieces))

\* Lines 51-56: the numeric parts not seen before, appended to out in turn.
RECURSIVE KeepIds(_, _)
KeepIds(parts, out) ==
    IF parts = << >> THEN out
    ELSE KeepIds(Tail(parts),
                 IF IsDigit(Head(parts)) /\ \A k \in 1 .. Len(out) : out[k] # Head(parts)
                 THEN Append(out, Head(parts)) ELSE out)

\* workshop.py lines 40-57 on an ini file that is missing, has no
\* WorkshopItems line, or has one followed by the text rest.
ParseWorkshopIdsFromIni(ini) ==
    IF ini.file = "missing" THEN Raise("FileNotFoundError")
    ELSE IF ini.file = "no_line" THEN Ok(<< >>)
    ELSE Ok(KeepIds(Parts(Split(MatchedValue(ini.rest))), << >>))

IniTexts == UNION { [1 .. n -> IniChars] : n \in 0 .. MaxIniChars }
IniFiles ==
    [file : {"line"}, rest : IniTexts]
        \cup [file : {"missing", "no_line"}, rest : {<< >>}]

\* ============================== workshop.py: the catalog and the statuses

\* The catalog response holds at most MaxItems entries.
MaxItems == 2

\* The entries of "publishedfiledetails" followed: the id is empty, "1", "2"
\* or "1" with a blank after it; the result is missing, 1 or 9; time and
\* title are given, in one entry the time 0.
ItemIds == {<< >>, <<"1">>, <<"2">>, <<"1", " ">>}
Items ==
    [publishedfileid : ItemIds, result : {None, Some(1), Some(9)},
     time_updated : {Some(2)}, title : {Some("t")}]
        \cup {[publishedfileid |-> <<"1">>, result |-> Some(1),
               time_updated |-> Some(0), title |-> Some("t")]}
ItemLists == UNION { [1 .. n -> Items] : n \in 0 .. MaxItems }

\* Mutant of RemoteInfo: time and title are taken whatever the result.
RemoteInfo_WhateverResult(item) ==
    [title |-> item.title,
     time_updated |-> IF Get(item.time_updated) = 0 THEN None ELSE item.time_updated,
     result |-> IF item.result = None THEN 0 ELSE Get(item.result)]

\* workshop.py lines 93-106: the ModRemoteInfo of an entry; a missing
\* result counts as 0, a time of 0 as no time.
RemoteInfo(item) ==
    LET result_int == IF item.result = None THEN 0 ELSE Get(item.result)
    IN IF result_int # 1
       THEN [title |-> None, time_updated |-> None, result |-> result_int]
       ELSE [title |-> item.title,
             time_updated |-> IF Get(item.time_updated) = 0 THEN None
                              ELSE item.time_updated,
             result |-> result_int]

\* workshop.py lines 88-107: the entries are entered into out in turn under
\* their stripped id, a later entry replacing an earlier one of the same
\* id; an entry with an empty id is skipped.
RECURSIVE RemoteMap(_, _)
RemoteMap(items, out) ==
    IF items = << >> THEN out
    ELSE LET wid == Strip(Head(items).publishedfileid)
         IN RemoteMap(Tail(items),
                      IF wid = << >> THEN out
                      ELSE [w \in DOMAIN out \cup {wid} |->
                               IF w = wid THEN RemoteInfo(Head(items)) ELSE out[w]])

\* workshop.py lines 63-64 and 86-107: fetch_published_details on the
\* entries the catalog answers with.
FetchPublishedDetails(workshop_ids, items) ==
    IF workshop_ids = << >> THEN << >> ELSE RemoteMap(items, << >>)

\* workshop.py lines 132-152: build_mod_statuses for the ids of the ini
\* file, the entries of the catalog and the time get_local_mod_mtime finds.
BuildModStatuses(workshop_ids, items, local_mtime) ==
    LET remote_map == FetchPublishedDetails(workshop_ids, items)
    IN [k \in 1 .. Len(workshop_ids) |->
          LET wid == workshop_ids[k]
              known == wid \in DOMAIN remote_map
          IN [workshop_id |-> wid,
              local_mtime |-> local_mtime,
              remote_time_updated |-> IF known THEN remote_map[wid].time_updated ELSE None,
              remote_title |-> IF known THEN remote_map[wid].title ELSE None]]

\* The id lists of the ini file and the local times followed.
IdLists == {<<<<"1">>>>, <<<<"1">>, <<"2">>>>}
LocalTimes == {None, Some(1), Some(3)}
CatalogRuns ==
    [workshop_ids : IdLists, items : ItemLists, local_mtime : LocalTimes]
        \cup [workshop_ids : {<< >>}, items : {<< >>}, local_mtime : {None}]

\* ========================================= one parser call on its own

FnInit ==
    /\ LoopOff
    /\ CodecOff
    /\ value = None
    /\ \/ \E a \in ToolRuns : call = [fn |-> "steamcmd_get_buildid", arg |-> a]
       \/ \E a \in ToolRuns, lb \in LocalBuildids :
             call = [fn |-> "check_updates", arg |-> [run |-> a, local_buildid |-> lb]]
       \/ \E b \in BlockSearches : call = [fn |-> "_extract_named_block", arg |-> b]
       \/ \E c \in CatalogRuns : call = [fn |-> "build_mod_statuses", arg |-> c]
       \/ \E r \in Responses : call = [fn |-> "parse_player_count", arg |-> r]
       \/ \E f \in IniFiles : call = [fn |-> "parse_workshop_ids_from_ini", arg |-> f]

\* steam_app.py lines 86-143 on the output of the run.
SteamcmdGetBuildidCall ==
    /\ call.fn = "steamcmd_get_buildid"
    /\ value = None
    /\ value' = Some(SteamcmdGetBuildid(call.arg.tool,
                                        RenderOutput(call.arg.siblings, call.arg.shape),
                                        call.arg.branch))
    /\ UNCHANGED <<loopVars, codecVars, call>>

\* steam_app.py lines 33-51 on a tool output and a name.
ExtractNamedBlockCall ==
    /\ call.fn = "_extract_named_block"
    /\ value = None
    /\ value' = Some(ExtractNamedBlock(RenderOutput(call.arg.siblings, call.arg.shape),
                                       call.arg.name))
    /\ UNCHANGED <<loopVars, codecVars, call>>

\* updates.py lines 26-64 with workshop.py lines 132-152: check_updates on
\* an install whose build id is the remote one, with the statuses that
\* build_mod_statuses builds.
BuildModStatusesCall ==
    /\ call.fn = "build_mod_statuses"
    /\ value = None
    /\ value' = Some(CheckUpdates(
           [ini_exists |-> TRUE, api_ok |-> TRUE,
            mods |-> BuildModStatuses(call.arg.workshop_ids, call.arg.items,
                                      call.arg.local_mtime),
            local_buildid |-> Some("1"),
            steamcmd |-> [buildid |-> Some("1"), error |-> None]]))
    /\ UNCHANGED <<loopVars, codecVars, call>>

\* updates.py lines 26-64 with the tool run of steamcmd_get_buildid.
CheckUpdatesCall ==
    /\ call.fn = "check_updates"
    /\ value = None
    /\ LET run == call.arg.run
       IN value' = Some(CheckUpdates(
              [ini_exists |-> TRUE, api_ok |-> TRUE, mods |-> << >>,
               local_buildid |-> call.arg.local_buildid,
               steamcmd |-> SteamcmdGetBuildid(run.tool,
                                               RenderOutput(run.siblings, run.shape),
                                               run.branch)]))
    /\ UNCHANGED <<loopVars, codecVars, call>>

\* players.py lines 9-22 on the reply.
ParsePlayerCountCall ==
    /\ call.fn = "parse_player_count"
    /\ value = None
    /\ value' = Some(ParsePlayerCount(call.arg))
    /\ UNCHANGED <<loopVars, codecVars, call>>

\* workshop.py lines 40-57 on the ini file.
ParseWorkshopIdsFromIniCall ==
    /\ call.fn = "parse_workshop_ids_from_ini"
    /\ value = None
    /\ value' = Some(ParseWorkshopIdsFromIni(call.arg))
    /\ UNCHANGED <<loopVars, codecVars, call>>

FnNext ==
    \/ SteamcmdGetBuildidCall
    \/ BuildModStatusesCall
    \/ ExtractNamedBlockCall
    \/ CheckUpdatesCall
    \/ ParsePlayerCountCall
    \/ ParseWorkshopIdsFromIniCall

FnSpec == FnInit /\ [][FnNext]_vars

\* C19: for a tool output whose branches block holds sibling branch blocks
\* with different build ids, the requested branch among them, the build id
\* returned is the one inside the block of the requested branch, and never
\* one of another branch.
C19_RequestedBranchOnly ==
    (/\ call.fn = "steamcmd_get_buildid"
     /\ value # None
     /\ call.arg.tool = "ran"
     /\ call.arg.shape = "full"
     /\ \A i \in 1 .. Len(call.arg.siblings) : call.arg.siblings[i].buildid # None
     /\ \E i \in 1 .. Len(call.arg.siblings) :
           call.arg.siblings[i].name = call.arg.branch) =>
        LET sibs == call.arg.siblings
            got == Get(value).buildid
            own == {i \in 1 .. Len(sibs) : sibs[i].name = call.arg.branch}
        IN /\ \A i \in own : got = sibs[i].buildid
           /\ got # None => \E i \in own : sibs[i].buildid = got

\* The places <<i, j, k>> of a reply at which a header stands: "Players
\* connected" in either letter case at i, only white space up to "(" at j,
\* one or more digits, ")" at k.
Headers(r) ==
    { h \in (1 .. Len(r)) \X (1 .. Len(r)) \X (1 .. Len(r)) :
        /\ h[1] < h[2] /\ h[2] + 1 < h[3]
        /\ r[h[1]] \in HeaderToks
        /\ \A m \in h[1] + 1 .. h[2] - 1 : r[m] \in {" ", "NL"}
        /\ r[h[2]] = "("
        /\ \A m \in h[2] + 1 .. h[3] - 1 : r[m] \in Digits
        /\ r[h[3]] = ")" }

\* The number N of the first header of a reply that has one.
HeaderCount(r) ==
    LET h == CHOOSE h \in Headers(r) : \A g \in Headers(r) : h[1] <= g[1]
    IN DecimalValue(SubSeq(r, h[2] + 1, h[3] - 1))

\* The lines of a reply that begin with "-".
DashLines(r) == {s \in LineStarts(r) : r[s] = "-"}
\* The lines of a reply whose first character after leading blanks is "-".
IndentedDashLines(r) ==
    {s \in LineStarts(r) :
        \E p \in s .. Len(r) : r[p] = "-" /\ \A m \in s .. p - 1 : r[m] = " "}

\* The count the claim gives for a reply whose listing lines are `listed`.
CountFrom(r, listed) ==
    IF Headers(r) # {} THEN Some(HeaderCount(r))
    ELSE IF listed # {} THEN Some(Cardinality(listed))
    ELSE None

\* C20 as stated: parse_player_count returns N for a reply with a header
\* "Players connected (N)" in any letter case, whatever lines follow; else
\* the number of lines beginning with "-" if there is one; else None.
C20_CountsLinesBeginningWithDash ==
    (call.fn = "parse_player_count" /\ value # None) =>
        Get(value) = CountFrom(call.arg, DashLines(call.arg))

\* C20 amended: as stated, but a line counts when its first character after
\* leading white space is "-".
C20_CountsStrippedDashLines ==
    (call.fn = "parse_player_count" /\ value # None) =>
        /\ Get(value) = CountFrom(call.arg, IndentedDashLines(call.arg))
        /\ call.arg = << >> => Get(value) = None

\* C20 witness: a reply without header whose second line is indented has
\* given the count of both lines.
C20_Witness ==
    /\ call.fn = "parse_player_count"
    /\ call.arg = <<"-", "x", "NL", " ", "-", "x">>
    /\ value = Some(Some(2))

\* The text of the WorkshopItems line itself: rest up to its line end.
LineValue(rest) ==
    SubSeq(rest, 1, IF Find(rest, "NL", 1) = 0 THEN Len(rest) ELSE Find(rest, "NL", 1) - 1)

\* The tokens of a value: its pieces between semicolons, without the white
\* space around them.
Tokens(v) == [k \in 1 .. Len(Split(v)) |-> Strip(Split(v)[k])]

\* ids is exactly the digit-only tokens of toks, each once, in the order of
\* their first occurrence.
NumericOnce(ids, toks) ==
    /\ \A k \in 1 .. Len(ids) : IsDigit(ids[k])
    /\ \A j, k \in 1 .. Len(ids) : ids[j] = ids[k] => j = k
    /\ \A k \in 1 .. Len(toks) : IsDigit(toks[k]) => \E j \in 1 .. Len(ids) : ids[j] = toks[k]
    /\ \E f \in [1 .. Len(ids) -> 1 .. Len(toks)] :
          /\ \A j \in 1 .. Len(ids) :
                /\ toks[f[j]] = ids[j]
                /\ \A k \in 1 .. f[j] - 1 : toks[k] # ids[j]
          /\ \A j, k \in 1 .. Len(ids) : j < k => f[j] < f[k]

\* C21: parse_workshop_ids_from_ini returns, for the value of the
\* WorkshopItems line split on ";", exactly the tokens that consist only of
\* digits, each once, in the order of their first occurrence.
C21_NumericTokensOfTheLineOnce ==
    (/\ call.fn = "parse_workshop_ids_from_ini"
     /\ call.arg.file = "line"
     /\ value # None) =>
        /\ Get(value).kind = "ok"
        /\ NumericOnce(Get(value).body, Tokens(LineValue(call.arg.rest)))

\* How often a line of lines stands in the log of the cycle.
LogCount(lines) == Cardinality({k \in 1 .. Len(log) : log[k] \in lines})

\* C22: within one poll cycle nothing is retried: at most one update check,
\* at most one player-count query and at most one restart sequence are
\* performed, and after a failure of one of them no further RCON exchange
\* takes place in the cycle: a failed update check is followed by no command,
\* and a failed command is the last of its cycle.
C22_NothingRetried ==
    /\ LogCount({"start"}) <= 1
    /\ LogCount({"summary"} \cup CheckFailedLines) <= 1
    /\ \A k \in 1 .. Len(calls) : calls[k].cmd = PlayersCmd <=> k = 1
    /\ LogCount({"immediate", "scheduled"}) <= 1
    /\ LogCount(CheckFailedLines) > 0 => calls = << >> /\ rpc = "idle" /\ wire = << >>
    /\ \A k \in 1 .. Len(calls) : calls[k].out # "ok" => k = Len(calls)
    /\ (calls # << >> /\ LastCall.out # "ok") => rpc \in {"returned", "idle"}
    /\ opened <= Len(calls) + 1

\* C22 witness: the cycle has ended after the second command of its restart
\* sequence failed, with three commands issued in all and none after it.
C22_Witness ==
    /\ pc = "returned"
    /\ Len(calls) = 3
    /\ calls[1].out = "ok" /\ calls[2].out = "ok" /\ calls[3].out # "ok"
    /\ log[Len(log)] = "restart_error"

\* C23: in looping mode the driver runs cycle after cycle forever: whatever
\* the outcome of a cycle, the driver neither stops nor ends, so that the
\* next cycle is started after the sleep; with --once exactly one cycle is
\* run, the driver never sleeps for a second one and then stops.
C23_LoopsForeverOrRunsOnce ==
    /\ ~once => pc \notin {"stopped", "crashed"}
    /\ once => pc # "sleep" /\ LogCount({"start"}) <= 1
    /\ (once /\ pc = "stopped") => LogCount({"start"}) = 1

\* The countdown messages sent so far in the cycle, in order.
RECURSIVE CountdownOf(_)
CountdownOf(cmds) ==
    IF cmds = << >> THEN << >>
    ELSE (IF Head(cmds).kind \in CountdownKinds THEN <<Head(cmds)>> ELSE << >>)
             \o CountdownOf(Tail(cmds))
CountdownSent == CountdownOf(SeqCmds)

\* The waits of the countdown loop so far: those after the up to two waits
\* that come before the loop.
LoopWaits ==
    LET before == (IF plan.delay - plan.warn_1 > 0 THEN 1 ELSE 0)
                      + (IF plan.warn_1 - plan.countdown > 0 THEN 1 ELSE 0)
    IN IF Len(waits) <= before THEN << >> ELSE SubSeq(waits, before + 1, Len(waits))

\* The countdown of a scheduled run without failed command: the k-th message
\* is the one of second countdown + 1 - k, a wait of one second follows each
\* message before anything else is sent, and once the loop is left exactly
\* countdown messages and waits have been made and save and quit follow.
CountdownRuns ==
    /\ Len(CountdownSent) <= plan.countdown
    /\ \A k \in 1 .. Len(CountdownSent) : CountdownSent[k].n = plan.countdown + 1 - k
    /\ \A k \in 1 .. Len(LoopWaits) : LoopWaits[k] = 1
    /\ Len(LoopWaits) <= Len(CountdownSent)
    /\ Len(CountdownSent) <= Len(LoopWaits) + 1
    /\ step = "cd_sleep" => Len(CountdownSent) = Len(LoopWaits) + 1
    /\ step \in {"save", "quit", "end"} =>
          /\ Len(CountdownSent) = plan.countdown
          /\ Len(LoopWaits) = plan.countdown
    /\ step = "end" =>
          /\ SeqCmds[Len(SeqCmds)] = Cmd("quit", 0)
          /\ SeqCmds[Len(SeqCmds) - 1] = Cmd("save", 0)

\* C24 as stated: when the clamped countdown c > 0 and every command
\* succeeds, exactly c countdown messages are broadcast, whose texts carry
\* the seconds c, c-1, ..., 1, each followed by a 1-second wait; a template
\* that fails to format gives the generic text for that second, skips no
\* message and does not abort: save and quit are still sent.
C24_CountdownCarriesSeconds ==
    (Scheduled /\ AllCallsOk /\ plan.countdown > 0) =>
        /\ CountdownRuns
        /\ \A k \in 1 .. Len(CountdownSent) :
              CountdownSent[k].kind =
                  IF Format(cfg.msg_countdown, CountdownSent[k].n).kind = "raise"
                  THEN "countdown_generic" ELSE "countdown"

\* C24 amended: as stated, the texts carrying the seconds when the template
\* has the {seconds} field or fails to format; a template without a field
\* is broadcast c times as it is.
C24_CountdownPerSecond ==
    (Scheduled /\ AllCallsOk /\ plan.countdown > 0) =>
        /\ CountdownRuns
        /\ \A k \in 1 .. Len(CountdownSent) :
              CountdownSent[k].kind =
                  CASE cfg.msg_countdown = DefaultTemplate -> "countdown"
                    [] cfg.msg_countdown = "Restart in {secs} seconds." -> "countdown_generic"
                    [] cfg.msg_countdown = "Restart soon." -> "countdown_plain"

\* C24 witness: a finished scheduled run whose template fails to format has
\* sent the generic text for every second of the longest countdown, each
\* followed by its wait, then save and quit.
C24_Witness ==
    /\ Scheduled
    /\ AllCallsOk
    /\ step = "end"
    /\ cfg.msg_countdown = "Restart in {secs} seconds."
    /\ plan.countdown = MaxCfgSec
    /\ CountdownSent = [k \in 1 .. MaxCfgSec |-> Cmd("countdown_generic", MaxCfgSec + 1 - k)]
    /\ LoopWaits = [k \in 1 .. MaxCfgSec |-> 1]

RECURSIVE SumSeq(_)
SumSeq(s) == IF s = << >> THEN 0 ELSE Head(s) + SumSeq(Tail(s))

\* C25: in a scheduled run in which every command succeeds, the waits made
\* between the 5-minute warning and the save command add up to the clamped
\* delay max(restart_delay_sec, 0), which is
\* (delay - warn_1) + (warn_1 - countdown) + countdown; no wait is negative
\* (time.sleep is only called with a positive number), and the waits made
\* so far never exceed the delay.
C25_WaitsAddUpToDelay ==
    (Scheduled /\ AllCallsOk) =>
        /\ \A k \in 1 .. Len(waits) : waits[k] > 0
        /\ plan.delay - plan.warn_1 >= 0
        /\ plan.warn_1 - plan.countdown >= 0
        /\ SumSeq(waits) <= Max(cfg.restart_delay_sec, 0)
        /\ step \in {"save", "quit", "end"} =>
              /\ SumSeq(waits) = Max(cfg.restart_delay_sec, 0)
              /\ SumSeq(waits) =
                    (plan.delay - plan.warn_1) + (plan.warn_1 - plan.countdown)
                        + plan.countdown

\* C25 witness: a finished scheduled run with a delay of 2 seconds, a
\* 1-minute warning 1 second before the end and a countdown of that second
\* has waited 1 second before the warning and 1 second in the countdown.
C25_Witness ==
    /\ Scheduled
    /\ AllCallsOk
    /\ step = "end"
    /\ cfg.restart_delay_sec = 2
    /\ plan.warn_1 = 1
    /\ plan.countdown = 1
    /\ waits = <<1, 1>>

\* C26: no state is carried from one poll cycle to the next.  The cycle
\* that follows the sleep starts in the state in which the first cycle
\* started, with the same configuration, whatever the cycle before did; in
\* every cycle an update check that reports any_outdated, with a password
\* configured, is followed by the player-count query; and in every cycle a
\* restart sequence whose commands all succeed ends in save and quit.  So a
\* restart completed in one cycle never suppresses the one of a later cycle.
C26_NoCarryOver ==
    /\ [][pc = "sleep" => (MainInit' /\ cfg' = cfg /\ once' = once)]_vars
    /\ [][(/\ pc = "decide"
           /\ AnyOutdated(Get(result))
           /\ cfg.rcon_password # "") =>
            (pc' = "players" /\ rpc' = "connect" /\ command' = PlayersCmd)]_vars
    /\ []((InSequence /\ AllCallsOk /\ step = "end") =>
            /\ SeqCmds[Len(SeqCmds)] = Cmd("quit", 0)
            /\ SeqCmds[Len(SeqCmds) - 1] = Cmd("save", 0))

\* C26 witness: in looping mode a cycle has completed a restart sequence,
\* save and quit sent, and the driver sleeps before its next cycle.
C26_Witness ==
    /\ ~once
    /\ pc = "sleep"
    /\ step = "end"
    /\ AllCallsOk
    /\ Len(calls) >= 3
    /\ calls[Len(calls)].cmd = Cmd("quit", 0)

\* C27: parse_player_count returns 0 only for a reply that holds a header
\* "Players connected (N)" whose number is zero; for a reply without header
\* the count of listing lines is positive or the result is None, never 0;
\* so the count is one that takes the immediate path (IsImmediate) only
\* when the server reported zero connected players in the header.
C27_ZeroOnlyFromHeader ==
    (call.fn = "parse_player_count" /\ value # None) =>
        LET n == Get(value)
            zero_reported == Headers(call.arg) # {} /\ HeaderCount(call.arg) = 0
        IN /\ n = Some(0) => zero_reported
           /\ Headers(call.arg) = {} => (n = None \/ Get(n) > 0)
           /\ IsImmediate(n) => zero_reported

\* C27 witness: a reply whose first line is a header reporting zero players
\* and whose second line is a listing line has given the count 0.
C27_Witness ==
    /\ call.fn = "parse_player_count"
    /\ call.arg = <<"pc", "(", "0", ")", "NL", "-", "x">>
    /\ value = Some(Some(0))

\* C28: every invocation of send_command eventually returns or raises, each
\* socket operation completing or timing out: the authentication loop does
\* not read packets forever, also when the peer keeps sending packets whose
\* type is not 2 and whose request id is not -1.
C28_SendCommandReturns == <>(rpc = "returned")

\* The tool runs in which subprocess.run is not reached or raises.
NoOutput == {"missing", "failed", "timeout"}

\* C29: steamcmd_get_buildid returns (no build id, error text) for a missing
\* tool, a tool that cannot be started and a tool that times out; every
\* result holds exactly one of build id and error text; so in the result of
\* check_updates a set steamcmd_error comes with an absent remote build id
\* and server_outdated false, and such a run sets steamcmd_error.
C29_ToolFailureIsAnErrorText ==
    /\ (call.fn = "steamcmd_get_buildid" /\ value # None) =>
          LET r == Get(value)
          IN /\ (r.buildid = None) # (r.error = None)
             /\ call.arg.tool \in NoOutput => (r.buildid = None /\ r.error # None)
    /\ (call.fn = "check_updates" /\ value # None) =>
          /\ Get(value).kind = "ok"
          /\ LET u == Get(Get(value).value)
             IN /\ (u.remote_buildid = None) # (u.steamcmd_error = None)
                /\ u.steamcmd_error # None => (u.remote_buildid = None /\ ~u.server_outdated)
                /\ call.arg.run.tool \in NoOutput => u.steamcmd_error # None

\* C29 witness: check_updates has returned on an install with build id "1"
\* whose tool run timed out: the error is set, the remote build id absent
\* and the server not outdated.
C29_Witness ==
    /\ call.fn = "check_updates"
    /\ call.arg.run.tool = "timeout"
    /\ call.arg.local_buildid = Some("1")
    /\ value # None
    /\ Get(Get(value).value).steamcmd_error # None
    /\ Get(Get(value).value).remote_buildid = None
    /\ ~Get(Get(value).value).server_outdated

\* The build id of the first branch block of sibs that has a build id line:
\* the first "buildid" line of the whole output.
FirstBuildid(sibs) ==
    LET with == {i \in 1 .. Len(sibs) : sibs[i].buildid # None}
    IN IF with = {} THEN None ELSE sibs[CHOOSE i \in with : \A k \in with : i <= k].buildid

\* The branch-scoped lookup fails: the output has no "branches" block, or
\* one whose braces never balance; or the branch name occurs nowhere in the
\* block, neither as a key nor as a description; or the block of the
\* branch, the name occurring first as its key, holds no build id line.
LookupFails(run) ==
    LET sibs == run.siblings
        named == {i \in 1 .. Len(sibs) : sibs[i].name = run.branch}
        described == {i \in 1 .. Len(sibs) : sibs[i].description = Some(run.branch)}
    IN \/ run.shape \in {"no_branches", "truncated"}
       \/ named = {} /\ described = {}
       \/ \E i \in named :
             /\ \A j \in described : j >= i
             /\ sibs[i].buildid = None

Count(s, tok) == Cardinality({k \in 1 .. Len(s) : s[k] = tok})
\* The braces of s are balanced, and no proper prefix of s has as many "}"
\* as "{".
BalancedBlock(s) ==
    /\ Count(s, "{") = Count(s, "}")
    /\ \A k \in 1 .. Len(s) - 1 :
          Count(SubSeq(s, 1, k), "{") > Count(SubSeq(s, 1, k), "}")

\* C31: _extract_named_block returns the text from the first "{" after the
\* first occurrence of the quoted name up to and including the "}" that
\* brings the nesting depth back to zero: the block has balanced braces and
\* every proper prefix of it has depth > 0, so that a nested block does not
\* end it early; it returns nothing exactly when the name does not occur,
\* no "{" follows it, or the braces from there on never balance.
C31_BlockIsBalanced ==
    (call.fn = "_extract_named_block" /\ value # None) =>
        LET text == RenderOutput(call.arg.siblings, call.arg.shape)
            named == {i \in 1 .. Len(text) : text[i] = call.arg.name}
            opens == {i \in 1 .. Len(text) :
                        /\ text[i] = "{"
                        /\ \E p \in named : p <= i /\ \A q \in named : p <= q}
            blocks == {b \in opens \X (1 .. Len(text)) :
                         /\ \A o \in opens : b[1] <= o
                         /\ b[1] <= b[2]
                         /\ BalancedBlock(SubSeq(text, b[1], b[2]))}
        IN /\ Get(value) # None =>
                 \E b \in blocks : Get(Get(value)) = SubSeq(text, b[1], b[2])
           /\ Get(value) = None <=> blocks = {}

\* C31 witness: the block named "depots" of a whole output has been
\* returned: it runs to the last "}" of the output, past the closing braces
\* of the blocks nested in it.
C31_Witness ==
    /\ call.fn = "_extract_named_block"
    /\ call.arg.name = "depots"
    /\ call.arg.shape = "full"
    /\ value # None
    /\ Get(value) # None
    /\ LET text == RenderOutput(call.arg.siblings, call.arg.shape)
           block == Get(Get(value))
       IN /\ block = SubSeq(text, 3, Len(text) - 1)
          /\ Count(block, "}") >= 4

\* The catalog gives nothing for the id wid: the response has no entry of
\* that id, or its entries of that id have a result other than 1.
RemoteUnknown(wid, items) ==
    \A k \in 1 .. Len(items) :
        Strip(items[k].publishedfileid) = wid => items[k].result # Some(1)

\* C32: a workshop id that is missing from the catalog response, or whose
\* entry has a result other than 1, gets a status with remote time and
\* title absent and is not outdated, whatever its local time (absent
\* included); when every id is such, mods_outdated is false and, the server
\* being current, any_outdated is false: no restart is triggered.
C32_UnknownRemoteNeverOutdated ==
    (call.fn = "build_mod_statuses" /\ value # None) =>
        /\ Get(value).kind = "ok"
        /\ LET u == Get(Get(value).value)
               ids == call.arg.workshop_ids
               unknown == {k \in 1 .. Len(ids) : RemoteUnknown(ids[k], call.arg.items)}
           IN /\ Len(u.mod_statuses) = Len(ids)
              /\ \A k \in unknown :
                    /\ u.mod_statuses[k].workshop_id = ids[k]
                    /\ u.mod_statuses[k].remote_time_updated = None
                    /\ u.mod_statuses[k].remote_title = None
                    /\ ~IsOutdated(u.mod_statuses[k])
              /\ unknown = 1 .. Len(ids) => (~u.mods_outdated /\ ~AnyOutdated(u))
              /\ u.mods_outdated =>
                    \E k \in (1 .. Len(ids)) \ unknown : IsOutdated(u.mod_statuses[k])

\* C32 witness: of two ids without local files the catalog answers the
\* first with result 9 and a time, and the second not at all; check_updates
\* has returned two statuses without remote time and nothing outdated.
C32_Witness ==
    /\ call.fn = "build_mod_statuses"
    /\ call.arg.workshop_ids = <<<<"1">>, <<"2">>>>
    /\ call.arg.items = <<[publishedfileid |-> <<"1">>, result |-> Some(9),
                           time_updated |-> Some(2), title |-> Some("t")]>>
    /\ call.arg.local_mtime = None
    /\ value # None
    /\ Len(Get(Get(value).value).mod_statuses) = 2
    /\ ~AnyOutdated(Get(Get(value).value))

====
